---------------------------- MODULE Spec2Model ----------------------------
(***************************************************************************)
(* Model of the progress64 reader/writer lock (src/src/p64_rwlock.c), of   *)
(* the lock benchmark's worker loop (src/benchmarks/bm_lock.c) and of the  *)
(* ring buffer (src/src/p64_ringbuf.c).                                    *)
(*                                                                         *)
(* Every atomic access to shared memory is one step of the thread that     *)
(* performs it; thread-local computation is folded into the step of the    *)
(* access that precedes it.  Shared memory is sequentially consistent.     *)
(* Machine words are modelled with fewer bits than the code's 32.          *)
(***************************************************************************)
EXTENDS Integers, Naturals, Sequences, FiniteSets, TLC

(***************************************************************************)
(* Bounds of the model.                                                    *)
(***************************************************************************)
\* Number of bits of the lock word p64_rwlock_t (uint32_t in the code).
LockBits == 3

\* Saturation value of the benchmark's failure counters.
MaxFail == 2

(***************************************************************************)
(* Bit arithmetic.                                                         *)
(***************************************************************************)
RECURSIVE Pow2(_)
Pow2(n) == IF n = 0 THEN 1 ELSE 2 * Pow2(n - 1)

RECURSIVE BitAnd(_, _)
BitAnd(a, b) ==
    IF a = 0 \/ b = 0 THEN 0
    ELSE (a % 2) * (b % 2) + 2 * BitAnd(a \div 2, b \div 2)

RECURSIVE BitOr(_, _)
BitOr(a, b) ==
    IF a = 0 THEN b
    ELSE IF b = 0 THEN a
    ELSE (IF a % 2 = 1 \/ b % 2 = 1 THEN 1 ELSE 0) + 2 * BitOr(a \div 2, b \div 2)

(***************************************************************************)
(* Reader/writer lock: src/src/p64_rwlock.c                                *)
(***************************************************************************)
LockWord == Pow2(LockBits)

RWLOCK_WRITER == Pow2(LockBits - 1)

RWLOCK_READERS == RWLOCK_WRITER - 1

\* Threads of the lock benchmark.
Threads == {"t1", "t2", "t3"}

VARIABLES
    lock,       \* the lock word *lock
    lpc,        \* lpc[t]: position of thread t in thr_execute and the lock calls
    ll,         \* ll[t]: the local l of acquire_rd / acquire_wr
    count_rd,   \* obj->count_rd
    count_wr,   \* obj->count_wr
    numfailrd,  \* numfailrd, summed over the threads, saturating at MaxFail
    numfailwr,  \* numfailwr, summed over the threads, saturating at MaxFail
    nummultrd,  \* whether some thread counted a concurrent reader (nummultrd)
    aborted     \* "no", or the release that called abort()

lockVars == <<lock, lpc, ll, count_rd, count_wr, numfailrd, numfailwr,
              nummultrd, aborted>>

\* The ring buffer and the threads that use it.
VARIABLES
    atomics,    \* whether the build defines __ARM_FEATURE_ATOMICS
    pflags,     \* PROD_FLAGS(rb)
    cflags,     \* CONS_FLAGS(rb)
    ep,         \* ep.prod, ep.cons: struct endpoint (head.cur, head.pend, tail, capacity)
    prod_mask,  \* prod_mask = cons_mask
    ring,       \* ring[]
    active,     \* the threads that use the ring
    th,         \* th[t]: position and locals of thread t in its current call
    seq,        \* seq[p]: number of elements producer p has enqueued (calls returned)
    deqd,       \* <<slot index, payload>> of the elements returned by dequeue
                \* calls, in order of return
    scarce,     \* scarce[t], for the threads observed: the ring was full (empty)
                \* at some instant of t's latest call
    rbassert    \* "no", or the assertion of release_slots that failed

\* The calls that create and destroy the ring buffer.
VARIABLES
    rb,         \* the handle: "none" before p64_ringbuf_alloc, "null" (NULL),
                \* "live", or "freed" after p64_mfree
    req,        \* the arguments of p64_ringbuf_alloc, and whether p64_malloc
                \* has memory to give
    err         \* the message passed to report_error, or "none"

\* The workload of the threads.
VARIABLES
    quota       \* quota.num: the largest num of a call; quota.per: the number
                \* of elements each producer enqueues in all; quota.deq: the
                \* smallest num of a dequeue

ringVars == <<atomics, pflags, cflags, ep, prod_mask, ring, active, th, seq, deqd, scarce, rbassert,
              rb, req, err, quota>>

\* wait_for_no: the loop ends when no bit of mask is set in the loaded value.
\* Faulty variants of the loop condition: one that never waits, one that
\* looks at the reader count whatever the mask.
WaitOverMut(l, mask) == TRUE

WaitOverReaders(l, mask) == BitAnd(l, RWLOCK_READERS) = 0

WaitOver(l, mask) == BitAnd(l, mask) = 0

\* release_rd: the check of the pre-release value that leads to abort().
InvalidReadRelease(prevl) == BitAnd(prevl, RWLOCK_WRITER) # 0 \/ prevl = 0

\* Faulty variant of the check of release_wr: it looks at the writer bit only.
InvalidWriteReleaseBit(l) == BitAnd(l, RWLOCK_WRITER) = 0

\* release_wr: the check that leads to abort().
InvalidWriteRelease(l) == l # RWLOCK_WRITER

Bump(n) == IF n < MaxFail THEN n + 1 ELSE n

LockInit ==
    /\ lock = 0
    /\ lpc = [t \in Threads |-> "idle"]
    /\ ll = [t \in Threads |-> 0]
    /\ count_rd = 0
    /\ count_wr = 0
    /\ numfailrd = 0
    /\ numfailwr = 0
    /\ nummultrd = FALSE
    /\ aborted = "no"

\* thr_execute: the start of a lap, a shared or an exclusive critical section.
StartLap(t) ==
    /\ aborted = "no"
    /\ lpc[t] = "idle"
    /\ \E next \in {"rd_wait", "wr_wait"} : lpc' = [lpc EXCEPT ![t] = next]
    /\ UNCHANGED <<lock, ll, count_rd, count_wr, numfailrd, numfailwr,
                   nummultrd, aborted>>
    /\ UNCHANGED ringVars

\* acquire_rd: wait_for_no(lock, RWLOCK_WRITER): one load of the lock word.
RdWait(t) ==
    /\ aborted = "no"
    /\ lpc[t] = "rd_wait"
    /\ WaitOver(lock, RWLOCK_WRITER)
    /\ ll' = [ll EXCEPT ![t] = lock]
    /\ lpc' = [lpc EXCEPT ![t] = "rd_cas"]
    /\ UNCHANGED <<lock, count_rd, count_wr, numfailrd, numfailwr,
                   nummultrd, aborted>>
    /\ UNCHANGED ringVars

\* acquire_rd: the weak compare-exchange l -> l + 1.
RdCas(t) ==
    /\ aborted = "no"
    /\ lpc[t] = "rd_cas"
    /\ \/ /\ lock = ll[t]
          /\ lock' = (ll[t] + 1) % LockWord
          /\ lpc' = [lpc EXCEPT ![t] = "rd_enter"]
          /\ UNCHANGED ll
       \/ /\ ll' = [ll EXCEPT ![t] = lock]
          /\ lpc' = [lpc EXCEPT ![t] = "rd_wait"]
          /\ UNCHANGED lock
    /\ UNCHANGED <<count_rd, count_wr, numfailrd, numfailwr, nummultrd, aborted>>
    /\ UNCHANGED ringVars

\* thr_execute, shared section: check count_wr, fetch-add count_rd.
RdEnter(t) ==
    /\ aborted = "no"
    /\ lpc[t] = "rd_enter"
    /\ numfailwr' = IF count_wr # 0 THEN Bump(numfailwr) ELSE numfailwr
    /\ nummultrd' = (nummultrd \/ count_rd # 0)
    /\ count_rd' = count_rd + 1
    /\ lpc' = [lpc EXCEPT ![t] = "rd_exit"]
    /\ UNCHANGED <<lock, ll, count_wr, numfailrd, aborted>>
    /\ UNCHANGED ringVars

\* thr_execute, shared section: fetch-sub count_rd, check count_wr.
RdExit(t) ==
    /\ aborted = "no"
    /\ lpc[t] = "rd_exit"
    /\ count_rd' = count_rd - 1
    /\ numfailwr' = IF count_wr # 0 THEN Bump(numfailwr) ELSE numfailwr
    /\ lpc' = [lpc EXCEPT ![t] = "rd_release"]
    /\ UNCHANGED <<lock, ll, count_wr, numfailrd, nummultrd, aborted>>
    /\ UNCHANGED ringVars

\* release_rd: fetch-sub 1, then the check of the pre-release value.
RdRelease(t) ==
    /\ aborted = "no"
    /\ lpc[t] = "rd_release"
    /\ lock' = (lock + LockWord - 1) % LockWord
    /\ IF InvalidReadRelease(lock)
       THEN /\ aborted' = "read release"
            /\ lpc' = [lpc EXCEPT ![t] = "abort"]
       ELSE /\ aborted' = aborted
            /\ lpc' = [lpc EXCEPT ![t] = "idle"]
    /\ UNCHANGED <<ll, count_rd, count_wr, numfailrd, numfailwr, nummultrd>>
    /\ UNCHANGED ringVars

\* acquire_wr: wait_for_no(lock, RWLOCK_WRITER): one load of the lock word.
WrWait(t) ==
    /\ aborted = "no"
    /\ lpc[t] = "wr_wait"
    /\ WaitOver(lock, RWLOCK_WRITER)
    /\ ll' = [ll EXCEPT ![t] = lock]
    /\ lpc' = [lpc EXCEPT ![t] = "wr_cas"]
    /\ UNCHANGED <<lock, count_rd, count_wr, numfailrd, numfailwr,
                   nummultrd, aborted>>
    /\ UNCHANGED ringVars

\* Faulty variant of acquire_wr's compare-exchange: an unconditional
\* fetch-or of RWLOCK_WRITER.
WrCasFetchOr(t) ==
    /\ aborted = "no"
    /\ lpc[t] = "wr_cas"
    /\ lock' = BitOr(lock, RWLOCK_WRITER)
    /\ lpc' = [lpc EXCEPT ![t] = "wr_drain"]
    /\ UNCHANGED <<ll, count_rd, count_wr, numfailrd, numfailwr, nummultrd, aborted>>
    /\ UNCHANGED ringVars

\* acquire_wr: the weak compare-exchange l -> l | RWLOCK_WRITER.
WrCas(t) ==
    /\ aborted = "no"
    /\ lpc[t] = "wr_cas"
    /\ \/ /\ lock = ll[t]
          /\ lock' = BitOr(ll[t], RWLOCK_WRITER)
          /\ lpc' = [lpc EXCEPT ![t] = "wr_drain"]
          /\ UNCHANGED ll
       \/ /\ ll' = [ll EXCEPT ![t] = lock]
          /\ lpc' = [lpc EXCEPT ![t] = "wr_wait"]
          /\ UNCHANGED lock
    /\ UNCHANGED <<count_rd, count_wr, numfailrd, numfailwr, nummultrd, aborted>>
    /\ UNCHANGED ringVars

\* acquire_wr: wait_for_no(lock, RWLOCK_READERS).
WrDrain(t) ==
    /\ aborted = "no"
    /\ lpc[t] = "wr_drain"
    /\ WaitOver(lock, RWLOCK_READERS)
    /\ lpc' = [lpc EXCEPT ![t] = "wr_enter"]
    /\ UNCHANGED <<lock, ll, count_rd, count_wr, numfailrd, numfailwr,
                   nummultrd, aborted>>
    /\ UNCHANGED ringVars

\* thr_execute, exclusive section: count_wr++, check count_rd.
WrEnter(t) ==
    /\ aborted = "no"
    /\ lpc[t] = "wr_enter"
    /\ numfailwr' = IF count_wr # 0 THEN Bump(numfailwr) ELSE numfailwr
    /\ count_wr' = count_wr + 1
    /\ numfailrd' = IF count_rd # 0 THEN Bump(numfailrd) ELSE numfailrd
    /\ lpc' = [lpc EXCEPT ![t] = "wr_exit"]
    /\ UNCHANGED <<lock, ll, count_rd, nummultrd, aborted>>
    /\ UNCHANGED ringVars

\* thr_execute, exclusive section: --count_wr, check count_rd.
WrExit(t) ==
    /\ aborted = "no"
    /\ lpc[t] = "wr_exit"
    /\ count_wr' = count_wr - 1
    /\ numfailwr' = IF count_wr - 1 # 0 THEN Bump(numfailwr) ELSE numfailwr
    /\ numfailrd' = IF count_rd # 0 THEN Bump(numfailrd) ELSE numfailrd
    /\ lpc' = [lpc EXCEPT ![t] = "wr_check"]
    /\ UNCHANGED <<lock, ll, count_rd, nummultrd, aborted>>
    /\ UNCHANGED ringVars

\* release_wr: the read of *lock and its check.
WrCheck(t) ==
    /\ aborted = "no"
    /\ lpc[t] = "wr_check"
    /\ IF InvalidWriteRelease(lock)
       THEN /\ aborted' = "write release"
            /\ lpc' = [lpc EXCEPT ![t] = "abort"]
       ELSE /\ aborted' = aborted
            /\ lpc' = [lpc EXCEPT ![t] = "wr_store"]
    /\ UNCHANGED <<lock, ll, count_rd, count_wr, numfailrd, numfailwr, nummultrd>>
    /\ UNCHANGED ringVars

\* release_wr: the store of 0.
WrStore(t) ==
    /\ aborted = "no"
    /\ lpc[t] = "wr_store"
    /\ lock' = 0
    /\ lpc' = [lpc EXCEPT ![t] = "idle"]
    /\ UNCHANGED <<ll, count_rd, count_wr, numfailrd, numfailwr, nummultrd, aborted>>
    /\ UNCHANGED ringVars

\* release_wr called by a thread that has not acquired the lock: the call.
StrayRelease(t) ==
    /\ aborted = "no"
    /\ lpc[t] = "idle"
    /\ lpc' = [lpc EXCEPT ![t] = "stray_check"]
    /\ UNCHANGED <<lock, ll, count_rd, count_wr, numfailrd, numfailwr,
                   nummultrd, aborted>>
    /\ UNCHANGED ringVars

\* release_wr called by a thread that has not acquired the lock: the read of
\* *lock and its check.
StrayCheck(t) ==
    /\ aborted = "no"
    /\ lpc[t] = "stray_check"
    /\ IF InvalidWriteRelease(lock)
       THEN /\ aborted' = "write release"
            /\ lpc' = [lpc EXCEPT ![t] = "abort"]
       ELSE /\ aborted' = aborted
            /\ lpc' = [lpc EXCEPT ![t] = "stray_store"]
    /\ UNCHANGED <<lock, ll, count_rd, count_wr, numfailrd, numfailwr, nummultrd>>
    /\ UNCHANGED ringVars

\* release_wr called by a thread that has not acquired the lock: the store
\* of 0, after which the thread makes no further call.
StrayStore(t) ==
    /\ aborted = "no"
    /\ lpc[t] = "stray_store"
    /\ lock' = 0
    /\ lpc' = [lpc EXCEPT ![t] = "stray_done"]
    /\ UNCHANGED <<ll, count_rd, count_wr, numfailrd, numfailwr, nummultrd, aborted>>
    /\ UNCHANGED ringVars

NextLock ==
    \E t \in Threads :
        \/ StartLap(t)
        \/ RdWait(t)
        \/ RdCas(t)
        \/ RdEnter(t)
        \/ RdExit(t)
        \/ RdRelease(t)
        \/ WrWait(t)
        \/ WrCas(t)
        \/ WrDrain(t)
        \/ WrEnter(t)
        \/ WrExit(t)
        \/ WrCheck(t)
        \/ WrStore(t)

(***************************************************************************)
(* Ring buffer: src/src/p64_ringbuf.c                                      *)
(***************************************************************************)
\* Number of bits of ringidx_t (uint32_t in the code).
IdxBits == 4

\* Largest nelems passed to p64_ringbuf_alloc.
MaxNelems == 3

\* Largest num passed to an enqueue or dequeue call.
MaxNum == 2

\* Number of elements each producer enqueues in all.
MaxPerProd == 2

\* Width of the pending window (32 in the code, the width of idxpair.pend).
PENDMAX == 2

FLAG_BLK == 1

FLAG_LOCKFREE == 2

FLAG_NONBLK == 4

IdxMod == Pow2(IdxBits)

\* Arithmetic of ringidx_t: unsigned, wrapping.
Idx(x) == (x + 4 * IdxMod) % IdxMod

\* The cast (int) of a ringidx_t value.
SInt(x) == IF x >= IdxMod \div 2 THEN x - IdxMod ELSE x

MIN(a, b) == IF a < b THEN a ELSE b

\* ROUNDUP_POW2(nelems)
RECURSIVE RoundUpFrom(_, _)
RoundUpFrom(p, n) == IF p >= n THEN p ELSE RoundUpFrom(2 * p, n)

ROUNDUP_POW2(n) == RoundUpFrom(1, n)

Producers == {"p1", "p2"}

Consumers == {"c1", "c2"}

RingThreads == Producers \cup Consumers

\* The payload pointer of the k-th element enqueued by a producer; 0 is a
\* slot never written.
ProdNo(p) == IF p = "p1" THEN 1 ELSE 2

Payload(p, k) == 10 * ProdNo(p) + k

Endpoint(cur, pend, tail, capacity) ==
    [cur |-> cur, pend |-> pend, tail |-> tail, capacity |-> capacity]

\* p64_ringbuf_alloc, the flags accepted.
ProdModes == {"SPENQ", "MPENQ", "NBENQ"}

ConsModes == {"SCDEQ", "MCDEQ", "NBDEQ", "LFDEQ"}

\* p64_ringbuf_alloc: prod_flags
ProdFlagsOf(flags) ==
    IF "SPENQ" \in flags THEN 0
    ELSE IF "NBENQ" \in flags THEN FLAG_NONBLK
    ELSE FLAG_BLK

\* p64_ringbuf_alloc: cons_flags
ConsFlagsOf(flags) ==
    BitOr(IF "SCDEQ" \in flags THEN 0
          ELSE IF "NBDEQ" \in flags THEN FLAG_NONBLK
          ELSE FLAG_BLK,
          IF "LFDEQ" \in flags THEN FLAG_LOCKFREE ELSE 0)

\* Faulty variant: single-consumer with lock-free dequeue is let through.
InvalidFlagsLax(flags) ==
    \/ {"SPENQ", "NBENQ"} \subseteq flags
    \/ {"SCDEQ", "NBDEQ"} \subseteq flags
    \/ {"NBDEQ", "LFDEQ"} \subseteq flags
    \/ flags \ (ProdModes \cup ConsModes) # {}

\* p64_ringbuf_alloc: the flag combinations rejected.
InvalidFlags(flags) ==
    \/ {"SPENQ", "NBENQ"} \subseteq flags
    \/ {"SCDEQ", "NBDEQ"} \subseteq flags
    \/ {"SCDEQ", "LFDEQ"} \subseteq flags
    \/ {"NBDEQ", "LFDEQ"} \subseteq flags
    \/ flags \ (ProdModes \cup ConsModes) # {}

Local0 ==
    [pc |-> "idle", n |-> 0, head |-> 0, tail |-> 0, mpend |-> 0,
     index |-> 0, actual |-> 0, old |-> <<0, 0>>, neu |-> <<0, 0>>,
     ev |-> <<>>, ret |-> -1]

HasFlag(flags, f) == BitAnd(flags, f) # 0

Side(t) == IF t \in Producers THEN "prod" ELSE "cons"

Peer(t) == IF t \in Producers THEN "cons" ELSE "prod"

FlagsOf(t) == IF t \in Producers THEN pflags ELSE cflags

\* The sets of threads that use a ring: one thread on a single-producer
\* (single-consumer) side, two threads on one multi-threaded side.
Workloads(pf, cf) ==
    LET multi(f) == HasFlag(f, BitOr(FLAG_BLK, FLAG_NONBLK))
    IN  {w \in {{"p1", "c1"}, {"p1", "p2", "c1"}, {"p1", "c1", "c2"}} :
            /\ "p2" \in w => multi(pf)
            /\ "c2" \in w => multi(cf)
            /\ w = {"p1", "c1"} => ~multi(pf) /\ ~multi(cf)}

\* The state p64_ringbuf_alloc(nelems, flags, esize) returns, and the threads
\* that use the ring.
RingInit ==
    /\ atomics \in BOOLEAN
    /\ \E nelems \in 1 .. MaxNelems, pm \in ProdModes, cm \in ConsModes :
          /\ ~InvalidFlags({pm, cm})
          /\ pflags = ProdFlagsOf({pm, cm})
          /\ cflags = ConsFlagsOf({pm, cm})
          /\ req = [nelems |-> nelems, flags |-> {pm, cm}, mem |-> TRUE]
          /\ ep = [prod |-> Endpoint(0, 0, 0, nelems), cons |-> Endpoint(0, 0, 0, 0)]
          /\ prod_mask = ROUNDUP_POW2(nelems) - 1
          /\ ring = [i \in 0 .. ROUNDUP_POW2(nelems) - 1 |-> 0]
          /\ active \in Workloads(ProdFlagsOf({pm, cm}), ConsFlagsOf({pm, cm}))
    /\ th = [t \in active |-> Local0]
    /\ seq = [p \in active \cap Producers |-> 0]
    /\ deqd = <<>>
    /\ rbassert = "no"
    /\ rb = "live"
    /\ err = "none"
    /\ quota = [num |-> MaxNum, per |-> MaxPerProd, deq |-> 1]

\* The threads of a side used by two threads.
Contenders ==
    IF "p2" \in active THEN active \cap Producers
    ELSE IF "c2" \in active THEN active \cap Consumers
    ELSE {}

cfgVars == <<atomics, pflags, cflags, prod_mask, active, quota>>

\* Whether the ring has no free slot (for a producer), no released element (for
\* a consumer), as the acquire of thread t's side computes it.
NoRes(t) ==
    LET multi == HasFlag(FlagsOf(t), BitOr(FLAG_BLK, FLAG_NONBLK))
    IN  IF t \in Producers
        THEN SInt(Idx(ep.prod.capacity + ep.prod.cur
                      - (IF multi THEN ep.prod.tail ELSE ep.cons.cur))) <= 0
        ELSE SInt(Idx(ep.cons.cur
                      - (IF multi /\ ~HasFlag(cflags, FLAG_LOCKFREE)
                         THEN ep.cons.tail ELSE ep.prod.cur))) <= 0

\* scarce[u] records whether NoRes(u) held at some instant of u's latest call.
Observe(t) ==
    scarce' = [u \in DOMAIN scarce |->
                  IF u = t /\ th[t].pc = "idle" THEN NoRes(u) \/ NoRes(u)'
                  ELSE IF u = t \/ th[u].pc # "idle" THEN scarce[u] \/ NoRes(u)'
                  ELSE scarce[u]]

\* What every step of a ring thread leaves alone, and the record of scarce.
Frame(t) == Observe(t) /\ UNCHANGED <<lockVars, rb, req, err>>

\* No thread runs once an assertion has failed, and none uses a ring that
\* p64_ringbuf_free has been called on.
Running == rbassert = "no" /\ rb = "live" /\ err = "none"

\* The capacity an acquire computes with: rb->prod.capacity, 0 for a consumer.
CapOf(t) == IF t \in Producers THEN ep.prod.capacity ELSE 0

\* acquire_slots, acquire_slots_mtsafe: actual = MIN(n, (int)(capacity + head - tail))
\* Faulty variants of the computation of actual: one that takes the size of
\* the ring for the capacity of the producer side, one that grants num.
AvailRingSize(n, capacity, head, tail) ==
    MIN(n, SInt(Idx((IF capacity = 0 THEN 0 ELSE prod_mask + 1) + head - tail)))

AvailAll(n, capacity, head, tail) == n

\* Faulty variant: the count is computed on integers that do not wrap.
AvailNoWrap(n, capacity, head, tail) == MIN(n, SInt(capacity + head - tail))

Avail(n, capacity, head, tail) == MIN(n, SInt(Idx(capacity + head - tail)))

\* The values of num a call is made with.
NumChoices(t) ==
    IF t \in Producers THEN 1 .. MIN(quota.num, quota.per - seq[t])
                        ELSE quota.deq .. quota.num

\* The return of 0 of an acquire that found no slot.
Return0 == [Local0 EXCEPT !.ret = 0]

\* Faulty variant: a blocking release that starts at the store.
ReleaseStartNoWait(flags) ==
    IF HasFlag(flags, FLAG_NONBLK) THEN "rel_cas" ELSE "rel_store"

\* release_slots: the position where it starts, by the flags.
ReleaseStart(flags) ==
    IF HasFlag(flags, FLAG_BLK) THEN "rel_wait"
    ELSE IF ~HasFlag(flags, FLAG_NONBLK) THEN "rel_store"
    ELSE "rel_cas"

\* acquire_slots: the single producer (single consumer) acquires slots.
SpAcquire(t) ==
    /\ Running
    /\ t \in active
    /\ th[t].pc = "idle"
    /\ ~HasFlag(FlagsOf(t), BitOr(FLAG_BLK, FLAG_NONBLK))
    /\ ~HasFlag(FlagsOf(t), FLAG_LOCKFREE)
    /\ \E n \in NumChoices(t) :
          LET tail == ep[Peer(t)].cur
              head == ep[Side(t)].cur
              actual == Avail(n, CapOf(t), head, tail)
          IN  th' = [th EXCEPT ![t] =
                        IF actual <= 0 THEN Return0
                        ELSE [Local0 EXCEPT !.pc = "slots", !.n = n,
                                            !.index = tail, !.actual = actual]]
    /\ UNCHANGED <<cfgVars, ep, ring, seq, deqd, rbassert>>
    /\ Frame(t)

\* acquire_slots_mtsafe without __ARM_FEATURE_ATOMICS: the load of rb->tail.
MtLoadTail(t) ==
    /\ Running
    /\ t \in active
    /\ th[t].pc = "idle"
    /\ ~atomics
    /\ HasFlag(FlagsOf(t), BitOr(FLAG_BLK, FLAG_NONBLK))
    /\ ~HasFlag(FlagsOf(t), FLAG_LOCKFREE)
    /\ \E n \in NumChoices(t) :
          th' = [th EXCEPT ![t] =
                    [Local0 EXCEPT !.pc = "mt_head", !.n = n, !.tail = ep[Side(t)].tail]]
    /\ UNCHANGED <<cfgVars, ep, ring, seq, deqd, rbassert>>
    /\ Frame(t)

\* acquire_slots_mtsafe without __ARM_FEATURE_ATOMICS: the load of rb->head.cur
\* and the first pass of the loop up to the compare-exchange.
MtLoadHead(t) ==
    /\ Running
    /\ t \in active
    /\ th[t].pc = "mt_head"
    /\ LET head == ep[Side(t)].cur
           actual == Avail(th[t].n, ep[Side(t)].capacity, head, th[t].tail)
       IN  th' = [th EXCEPT ![t] =
                     IF actual <= 0 THEN Return0
                     ELSE [@ EXCEPT !.pc = "mt_cas", !.head = head, !.actual = actual]]
    /\ UNCHANGED <<cfgVars, ep, ring, seq, deqd, rbassert>>
    /\ Frame(t)

\* The comparison of a compare-exchange of rb->tail.
\* Faulty variant: a compare-exchange of tail that never fails.
TailCasOkMut(current, expected) == TRUE

TailCasOk(current, expected) == current = expected

\* acquire_slots_mtsafe without __ARM_FEATURE_ATOMICS: the compare-exchange of
\* rb->tail; on failure tail is updated, head is not read again.
MtCas(t) ==
    /\ Running
    /\ t \in active
    /\ th[t].pc = "mt_cas"
    /\ IF TailCasOk(ep[Side(t)].tail, th[t].tail)
       THEN /\ ep' = [ep EXCEPT ![Side(t)].tail = Idx(th[t].tail + th[t].actual)]
            /\ th' = [th EXCEPT ![t] =
                         [@ EXCEPT !.pc = "slots", !.index = th[t].tail]]
       ELSE /\ ep' = ep
            /\ LET tail == ep[Side(t)].tail
                   actual == Avail(th[t].n, ep[Side(t)].capacity, th[t].head, tail)
               IN  th' = [th EXCEPT ![t] =
                             IF actual <= 0 THEN Return0
                             ELSE [@ EXCEPT !.tail = tail, !.actual = actual]]
    /\ UNCHANGED <<cfgVars, ring, seq, deqd, rbassert>>
    /\ Frame(t)

\* acquire_slots_mtsafe with __ARM_FEATURE_ATOMICS: icas16 reads the endpoint.
Icas16(t) ==
    /\ Running
    /\ t \in active
    /\ th[t].pc = "idle"
    /\ atomics
    /\ HasFlag(FlagsOf(t), BitOr(FLAG_BLK, FLAG_NONBLK))
    /\ ~HasFlag(FlagsOf(t), FLAG_LOCKFREE)
    /\ \E n \in NumChoices(t) :
          LET mem == ep[Side(t)]
              actual == Avail(n, mem.capacity, mem.cur, mem.tail)
          IN  th' = [th EXCEPT ![t] =
                        IF actual <= 0 THEN Return0
                        ELSE [Local0 EXCEPT !.pc = "cas16", !.n = n, !.head = mem.cur,
                                            !.mpend = mem.pend, !.tail = mem.tail,
                                            !.actual = actual]]
    /\ UNCHANGED <<cfgVars, ep, ring, seq, deqd, rbassert>>
    /\ Frame(t)

\* acquire_slots_mtsafe with __ARM_FEATURE_ATOMICS: cas16 of the whole endpoint.
Cas16(t) ==
    /\ Running
    /\ t \in active
    /\ th[t].pc = "cas16"
    /\ LET mem == ep[Side(t)]
       IN  IF mem.cur = th[t].head /\ mem.pend = th[t].mpend /\ mem.tail = th[t].tail
           THEN /\ ep' = [ep EXCEPT ![Side(t)].tail = Idx(th[t].tail + th[t].actual)]
                /\ th' = [th EXCEPT ![t] =
                             [@ EXCEPT !.pc = "slots", !.index = th[t].tail]]
           ELSE /\ ep' = ep
                /\ LET actual == Avail(th[t].n, mem.capacity, mem.cur, mem.tail)
                   IN  th' = [th EXCEPT ![t] =
                                 IF actual <= 0 THEN Return0
                                 ELSE [@ EXCEPT !.head = mem.cur, !.mpend = mem.pend,
                                                !.tail = mem.tail, !.actual = actual]]
    /\ UNCHANGED <<cfgVars, ring, seq, deqd, rbassert>>
    /\ Frame(t)

\* write_slots, read_slots: the ring position of element k (from 0) of r.
\* Faulty variant: every element goes to the first acquired slot.
SegSlotFirst(index, actual, k) == BitAnd(index, prod_mask)

SegSlot(index, actual, k) ==
    LET first == BitAnd(index, prod_mask)
        seg0 == prod_mask + 1 - first
    IN  IF actual <= 1 THEN first
        ELSE IF actual <= seg0 THEN first + k
        ELSE IF k < seg0 THEN first + k
        ELSE k - seg0

\* p64_ringbuf_enqueue, NBENQ: the ring position of element i.
NbSlot(index, i) == BitAnd(Idx(index + i), prod_mask)

\* p64_ringbuf_enqueue, step 2: the elements are written to the acquired slots.
WriteSlots(t) ==
    /\ Running
    /\ t \in active
    /\ th[t].pc = "slots"
    /\ t \in Producers
    /\ LET r == th[t]
           at(k) == IF HasFlag(pflags, FLAG_NONBLK) THEN NbSlot(r.index, k)
                    ELSE SegSlot(r.index, r.actual, k)
       IN  ring' = [i \in DOMAIN ring |->
                       IF \E k \in 0 .. r.actual - 1 : at(k) = i
                       THEN Payload(t, seq[t] + 1 + CHOOSE k \in 0 .. r.actual - 1 : at(k) = i)
                       ELSE ring[i]]
    /\ th' = [th EXCEPT ![t].pc = ReleaseStart(pflags)]
    /\ UNCHANGED <<cfgVars, ep, seq, deqd, rbassert>>
    /\ Frame(t)

\* p64_ringbuf_dequeue, step 2: the elements are read from the acquired slots.
ReadSlots(t) ==
    /\ Running
    /\ t \in active
    /\ th[t].pc = "slots"
    /\ t \in Consumers
    /\ th' = [th EXCEPT ![t] =
                 [@ EXCEPT !.pc = ReleaseStart(cflags),
                           !.ev = [k \in 1 .. th[t].actual |->
                                      ring[SegSlot(th[t].index, th[t].actual, k - 1)]]]]
    /\ UNCHANGED <<cfgVars, ep, ring, seq, deqd, rbassert>>
    /\ Frame(t)

\* The return of a call that enqueued (dequeued) actual elements.
Returned(t) == [Local0 EXCEPT !.ret = th[t].actual]

Finish(t) ==
    /\ th' = [th EXCEPT ![t] = Returned(t)]
    /\ IF t \in Producers
       THEN /\ seq' = [seq EXCEPT ![t] = seq[t] + th[t].actual]
            /\ deqd' = deqd
       ELSE /\ seq' = seq
            /\ deqd' = deqd \o [k \in 1 .. th[t].actual |->
                                    <<Idx(th[t].index + k - 1), th[t].ev[k]>>]

\* release_slots, FLAG_BLK: wait_until_equal_w_bkoff(&loc->cur, idx).
\* Faulty variant: a blocking release that does not wait for its turn.
RelWaitOverMut(cur, idx) == TRUE

RelWaitOver(cur, idx) == cur = idx

RelWait(t) ==
    /\ Running
    /\ t \in active
    /\ th[t].pc = "rel_wait"
    /\ RelWaitOver(ep[Peer(t)].cur, th[t].index)
    /\ th' = [th EXCEPT ![t].pc = "rel_store"]
    /\ UNCHANGED <<cfgVars, ep, ring, seq, deqd, rbassert>>
    /\ Frame(t)

\* release_slots, not FLAG_NONBLK: the store of idx + n to loc->cur.
RelStore(t) ==
    /\ Running
    /\ t \in active
    /\ th[t].pc = "rel_store"
    /\ ep' = [ep EXCEPT ![Peer(t)].cur = Idx(th[t].index + th[t].actual)]
    /\ Finish(t)
    /\ UNCHANGED <<cfgVars, ring, rbassert>>
    /\ Frame(t)

\* Faulty variant: no slot is ever found in order.
TrailingOnesNone(x) == 0

\* __builtin_ctzl(~newpend): the number of trailing ones of newpend.
RECURSIVE TrailingOnes(_)
TrailingOnes(x) == IF x % 2 = 1 THEN 1 + TrailingOnes(x \div 2) ELSE 0

\* Faulty variant of the body of the do-loop: the slots already pending are
\* dropped from the new mask.
PendUpdateForgets(idx, n, old) ==
    LET offset == Idx(idx - old[1])
        ourpend == ((Pow2(n) - 1) * Pow2(offset)) % Pow2(PENDMAX)
        inorder == IF ourpend % 2 = 1 THEN n ELSE 0
    IN  <<(<<Idx(old[1] + inorder), (ourpend \div Pow2(inorder)) % Pow2(PENDMAX)>>), "no">>

\* release_slots, FLAG_NONBLK: the body of the do-loop, from old to neu.
\* The result is <<neu, the assertion that fails or "no">>.
PendUpdate(idx, n, old) ==
    LET offset == Idx(idx - old[1])
        ourpend == ((Pow2(n) - 1) * Pow2(offset)) % Pow2(PENDMAX)
        newpend == BitOr(old[2], ourpend)
        inorder == TrailingOnes(newpend)
        neu == <<Idx(old[1] + inorder), (newpend \div Pow2(inorder)) % Pow2(PENDMAX)>>
        failed == IF ~(n < PENDMAX) THEN "n < PENDMAX"
                  ELSE IF ~(n + offset <= PENDMAX) THEN "n + offset <= PENDMAX"
                  ELSE IF BitAnd(old[2], ourpend) # 0 THEN "no overlap"
                  ELSE IF ~(inorder <= PENDMAX) THEN "inorder <= PENDMAX"
                  ELSE IF neu[2] % 2 # 0 THEN "lsb not pending"
                  ELSE "no"
    IN  <<neu, failed>>

\* Faulty variant: no release fits the pending window.
WindowFitsNever(delta) == FALSE

\* Faulty variant: a pending window one slot too wide.
WindowFitsWide(delta) == delta <= PENDMAX + 1

\* Faulty variant: every release fits the pending window.
WindowFitsAll(delta) == TRUE

\* release_slots, FLAG_NONBLK: delta <= PENDMAX, the release ends within the
\* pending window.
WindowFits(delta) == delta <= PENDMAX

\* release_slots, FLAG_NONBLK: the in-order attempt, a compare-exchange of
\* {idx, 0} to {idx + n, 0}; on failure, the check of the pending window.
RelCas(t) ==
    /\ Running
    /\ t \in active
    /\ th[t].pc = "rel_cas"
    /\ LET loc == ep[Peer(t)]
           idx == th[t].index
           n == th[t].actual
       IN  IF loc.cur = idx /\ loc.pend = 0
           THEN /\ ep' = [ep EXCEPT ![Peer(t)].cur = Idx(idx + n)]
                /\ Finish(t)
                /\ rbassert' = rbassert
           ELSE LET old == <<loc.cur, loc.pend>>
                    delta == Idx(Idx(idx + n) - old[1])
                    upd == PendUpdate(idx, n, old)
                IN  /\ WindowFits(delta)
                    /\ th' = [th EXCEPT ![t] =
                                 [@ EXCEPT !.pc = "rel_pend", !.old = old, !.neu = upd[1]]]
                    /\ rbassert' = upd[2]
                    /\ UNCHANGED <<ep, seq, deqd>>
    /\ UNCHANGED <<cfgVars, ring>>
    /\ Frame(t)

\* release_slots, FLAG_NONBLK: the compare-exchange of old to neu.
RelPend(t) ==
    /\ Running
    /\ t \in active
    /\ th[t].pc = "rel_pend"
    /\ LET loc == ep[Peer(t)]
       IN  IF loc.cur = th[t].old[1] /\ loc.pend = th[t].old[2]
           THEN /\ ep' = [ep EXCEPT ![Peer(t)].cur = th[t].neu[1],
                                    ![Peer(t)].pend = th[t].neu[2]]
                /\ Finish(t)
                /\ rbassert' = rbassert
           ELSE LET old == <<loc.cur, loc.pend>>
                    upd == PendUpdate(th[t].index, th[t].actual, old)
                IN  /\ th' = [th EXCEPT ![t] = [@ EXCEPT !.old = old, !.neu = upd[1]]]
                    /\ rbassert' = upd[2]
                    /\ UNCHANGED <<ep, seq, deqd>>
    /\ UNCHANGED <<cfgVars, ring>>
    /\ Frame(t)

\* Lock-free dequeue: the load of rb->prod.head.cur, by p64_ringbuf_dequeue
\* (api "dequeue") or by p64_ringbuf_acquire_ (api "acquire_").
LfLoadHead(t) ==
    /\ Running
    /\ t \in active
    /\ th[t].pc = "idle"
    /\ t \in Consumers
    /\ HasFlag(cflags, FLAG_LOCKFREE)
    /\ \E n \in NumChoices(t), api \in {"dequeue", "acquire_"} :
          th' = [th EXCEPT ![t] =
                    [Local0 EXCEPT !.pc = IF api = "dequeue" THEN "lf_tail" ELSE "lf2_tail",
                                   !.n = n, !.head = ep.prod.cur]]
    /\ UNCHANGED <<cfgVars, ep, ring, seq, deqd, rbassert>>
    /\ Frame(t)

\* Lock-free dequeue: actual = MIN((int)num, (int)(tail - head))
LfAvail(n, head, tail) == MIN(n, SInt(Idx(tail - head)))

\* Lock-free dequeue: the load of rb->cons.head.cur and the computation of actual.
LfLoadTail(t) ==
    /\ Running
    /\ t \in active
    /\ th[t].pc \in {"lf_tail", "lf2_tail"}
    /\ LET tail == ep.cons.cur
           actual == LfAvail(th[t].n, th[t].head, tail)
       IN  th' = [th EXCEPT ![t] =
                     IF actual <= 0 THEN Return0
                     ELSE [@ EXCEPT !.pc = IF th[t].pc = "lf_tail" THEN "lf_read" ELSE "lf2_read",
                                    !.tail = tail, !.index = th[t].head, !.actual = actual]]
    /\ UNCHANGED <<cfgVars, ep, ring, seq, deqd, rbassert>>
    /\ Frame(t)

\* Lock-free dequeue: the slots are read in advance.
LfRead(t) ==
    /\ Running
    /\ t \in active
    /\ th[t].pc \in {"lf_read", "lf2_read"}
    /\ th' = [th EXCEPT ![t] =
                 [@ EXCEPT !.pc = IF th[t].pc = "lf_read" THEN "lf_cas" ELSE "lf2_rel",
                           !.ev = [k \in 1 .. th[t].actual |->
                                      ring[SegSlot(th[t].index, th[t].actual, k - 1)]]]]
    /\ UNCHANGED <<cfgVars, ep, ring, seq, deqd, rbassert>>
    /\ Frame(t)

\* The comparison of a compare-exchange of rb->prod.head.cur.
\* Faulty variant: a compare-exchange of head that never fails.
HeadCasOkMut(current, expected) == TRUE

HeadCasOk(current, expected) == current = expected

\* Faulty variant: a lock-free dequeue that returns what it read in advance
\* whether or not its compare-exchange succeeds.
LfCasNoRetry(t) ==
    /\ Running
    /\ t \in active
    /\ th[t].pc = "lf_cas"
    /\ ep' = [ep EXCEPT !.prod.cur = Idx(th[t].head + th[t].actual)]
    /\ Finish(t)
    /\ UNCHANGED <<cfgVars, ring, rbassert>>
    /\ Frame(t)

\* Faulty variant: a failed compare-exchange does not update head.
LfCasStaleHead(t) ==
    /\ Running
    /\ t \in active
    /\ th[t].pc = "lf_cas"
    /\ \/ /\ HeadCasOk(ep.prod.cur, th[t].head)
          /\ ep' = [ep EXCEPT !.prod.cur = Idx(th[t].head + th[t].actual)]
          /\ Finish(t)
       \/ /\ th' = [th EXCEPT ![t] = [@ EXCEPT !.pc = "lf_read", !.ev = <<>>]]
          /\ UNCHANGED <<ep, seq, deqd>>
    /\ UNCHANGED <<cfgVars, ring, rbassert>>
    /\ Frame(t)

\* p64_ringbuf_dequeue, lock-free: the weak compare-exchange of
\* rb->prod.head.cur.  It succeeds only on the expected value and may fail on
\* any value; on failure head is updated and the loop starts again, tail is
\* not read again.
LfCas(t) ==
    /\ Running
    /\ t \in active
    /\ th[t].pc = "lf_cas"
    /\ \/ /\ HeadCasOk(ep.prod.cur, th[t].head)
          /\ ep' = [ep EXCEPT !.prod.cur = Idx(th[t].head + th[t].actual)]
          /\ Finish(t)
       \/ /\ LET head == ep.prod.cur
                 actual == LfAvail(th[t].n, head, th[t].tail)
             IN  th' = [th EXCEPT ![t] =
                           IF actual <= 0 THEN Return0
                           ELSE [@ EXCEPT !.pc = "lf_read", !.head = head,
                                          !.index = head, !.actual = actual,
                                          !.ev = <<>>]]
          /\ UNCHANGED <<ep, seq, deqd>>
    /\ UNCHANGED <<cfgVars, ring, rbassert>>
    /\ Frame(t)

\* The return of p64_ringbuf_release_ that reports failure.
ReleaseFailed == [Local0 EXCEPT !.ret = -2]

\* Faulty variant of p64_ringbuf_release_ for a lock-free dequeue: a store
\* of index + actual instead of the compare-exchange.
LfReleaseBlind(t) ==
    /\ Running
    /\ t \in active
    /\ th[t].pc = "lf2_rel"
    /\ ep' = [ep EXCEPT !.prod.cur = Idx(th[t].index + th[t].actual)]
    /\ Finish(t)
    /\ UNCHANGED <<cfgVars, ring, rbassert>>
    /\ Frame(t)

\* p64_ringbuf_release_, lock-free dequeue: one weak compare-exchange of
\* rb->prod.head.cur, whose success is returned.
LfRelease(t) ==
    /\ Running
    /\ t \in active
    /\ th[t].pc = "lf2_rel"
    /\ \/ /\ HeadCasOk(ep.prod.cur, th[t].index)
          /\ ep' = [ep EXCEPT !.prod.cur = Idx(th[t].index + th[t].actual)]
          /\ Finish(t)
       \/ /\ th' = [th EXCEPT ![t] = ReleaseFailed]
          /\ UNCHANGED <<ep, seq, deqd>>
    /\ UNCHANGED <<cfgVars, ring, rbassert>>
    /\ Frame(t)

NextRing ==
    \E t \in RingThreads :
        \/ SpAcquire(t)
        \/ MtLoadTail(t)
        \/ MtLoadHead(t)
        \/ MtCas(t)
        \/ Icas16(t)
        \/ Cas16(t)
        \/ WriteSlots(t)
        \/ ReadSlots(t)
        \/ RelWait(t)
        \/ RelStore(t)
        \/ RelCas(t)
        \/ RelPend(t)
        \/ LfLoadHead(t)
        \/ LfLoadTail(t)
        \/ LfRead(t)
        \/ LfCas(t)
        \/ LfRelease(t)

\* The largest nelems p64_ringbuf_alloc accepts: the largest ringidx_t.
MAXELEMS == IdxMod - 1

\* The flags a caller may pass: the seven of SUPPORTED_FLAGS and a bit
\* outside of them.
AllFlags == ProdModes \cup ConsModes \cup {"OTHER"}

\* The ring buffer before p64_ringbuf_alloc: no memory, no thread.
NoRing ==
    /\ atomics = FALSE
    /\ pflags = 0
    /\ cflags = 0
    /\ ep = [prod |-> Endpoint(0, 0, 0, 0), cons |-> Endpoint(0, 0, 0, 0)]
    /\ prod_mask = 0
    /\ ring = [i \in {} |-> 0]
    /\ active = {}
    /\ th = [t \in {} |-> Local0]
    /\ seq = [p \in {} |-> 0]
    /\ deqd = <<>>
    /\ scarce = [t \in {} |-> FALSE]
    /\ rbassert = "no"
    /\ rb = "none"
    /\ err = "none"
    /\ quota = [num |-> MaxNum, per |-> MaxPerProd, deq |-> 1]

\* p64_ringbuf_alloc(nelems, flags, esize)
p64_ringbuf_alloc ==
    /\ rb = "none"
    /\ IF req.nelems = 0 \/ req.nelems > MAXELEMS
       THEN /\ err' = "invalid number of elements"
            /\ rb' = "null"
            /\ UNCHANGED <<pflags, cflags, ep, prod_mask, ring>>
       ELSE IF InvalidFlags(req.flags)
       THEN /\ err' = "invalid flags"
            /\ rb' = "null"
            /\ UNCHANGED <<pflags, cflags, ep, prod_mask, ring>>
       ELSE IF ~req.mem
       THEN /\ rb' = "null"
            /\ UNCHANGED <<err, pflags, cflags, ep, prod_mask, ring>>
       ELSE LET ringsz == ROUNDUP_POW2(req.nelems)
            IN  /\ ep' = [prod |-> Endpoint(0, 0, 0, req.nelems),
                          cons |-> Endpoint(0, 0, 0, 0)]
                /\ prod_mask' = ringsz - 1
                /\ ring' = [i \in 0 .. ringsz - 1 |-> 0]
                /\ pflags' = ProdFlagsOf(req.flags)
                /\ cflags' = ConsFlagsOf(req.flags)
                /\ rb' = "live"
                /\ err' = err
    /\ UNCHANGED <<atomics, active, th, seq, deqd, scarce, rbassert, req, quota>>
    /\ UNCHANGED lockVars

\* Faulty variant: a free that does not look at the indices.
FreeUnchecked ==
    /\ rb = "live"
    /\ err = "none"
    /\ rbassert = "no"
    /\ \A t \in active : th[t].pc = "idle"
    /\ rb' = "freed"
    /\ UNCHANGED <<atomics, pflags, cflags, ep, prod_mask, ring, active, th, seq,
                   deqd, scarce, rbassert, req, err, quota>>
    /\ UNCHANGED lockVars

\* p64_ringbuf_free(rb), called when no enqueue or dequeue is in progress.
p64_ringbuf_free ==
    /\ rb = "live"
    /\ err = "none"
    /\ rbassert = "no"
    /\ \A t \in active : th[t].pc = "idle"
    /\ IF ep.prod.cur # ep.cons.cur
       THEN /\ err' = "ring buffer not empty"
            /\ rb' = rb
       ELSE /\ rb' = "freed"
            /\ err' = err
    /\ UNCHANGED <<atomics, pflags, cflags, ep, prod_mask, ring, active, th, seq,
                   deqd, scarce, rbassert, req, quota>>
    /\ UNCHANGED lockVars

vars == <<lockVars, ringVars>>

\* The ring buffer while only the lock benchmark runs: allocated, not used.
RingIdle ==
    /\ atomics = FALSE
    /\ pflags = 0
    /\ cflags = 0
    /\ ep = [prod |-> Endpoint(0, 0, 0, 1), cons |-> Endpoint(0, 0, 0, 0)]
    /\ prod_mask = 0
    /\ ring = [i \in 0 .. 0 |-> 0]
    /\ active = {}
    /\ th = [t \in active |-> Local0]
    /\ seq = [p \in active \cap Producers |-> 0]
    /\ deqd = <<>>
    /\ scarce = [t \in {} |-> FALSE]
    /\ rbassert = "no"
    /\ rb = "live"
    /\ req = [nelems |-> 1, flags |-> {"SPENQ", "SCDEQ"}, mem |-> TRUE]
    /\ err = "none"
    /\ quota = [num |-> MaxNum, per |-> MaxPerProd, deq |-> 1]

InitLock ==
    /\ LockInit
    /\ RingIdle

\* The lock benchmark: the threads of thr_execute on one lock.
SpecLock == InitLock /\ [][NextLock]_vars

InitRing ==
    /\ LockInit
    /\ RingInit
    /\ scarce = [t \in {} |-> FALSE]

\* The threads that use one ring buffer.
SpecRing == InitRing /\ [][NextRing]_vars

InitWatch ==
    /\ LockInit
    /\ RingInit
    /\ Contenders # {}
    /\ scarce = [t \in Contenders |-> FALSE]

\* The threads that use one ring buffer, two of them on the same side and
\* observed.
SpecWatch == InitWatch /\ [][NextRing]_vars

InitAlloc ==
    /\ LockInit
    /\ NoRing
    /\ req \in [nelems : 0 .. MaxNelems, flags : SUBSET AllFlags, mem : BOOLEAN]

\* One call of p64_ringbuf_alloc, with any arguments.
SpecAlloc == InitAlloc /\ [][p64_ringbuf_alloc]_vars

NextFree == NextRing \/ p64_ringbuf_free

\* The threads that use one ring buffer, and a call of p64_ringbuf_free.
SpecFree == InitRing /\ [][NextFree]_vars

\* A ring of non-blocking producers and a single consumer, with room for a
\* call of PENDMAX + 1 elements, used by one producer or by two.
InitLarge ==
    /\ LockInit
    /\ atomics \in BOOLEAN
    /\ active \in {{"p1", "c1"}, {"p1", "p2", "c1"}}
    /\ \E nelems \in PENDMAX + 1 .. PENDMAX + 2 :
          /\ nelems = PENDMAX + 1 => active = {"p1", "c1"}
          /\ req = [nelems |-> nelems, flags |-> {"NBENQ", "SCDEQ"}, mem |-> TRUE]
          /\ ep = [prod |-> Endpoint(0, 0, 0, nelems), cons |-> Endpoint(0, 0, 0, 0)]
          /\ prod_mask = ROUNDUP_POW2(nelems) - 1
          /\ ring = [i \in 0 .. ROUNDUP_POW2(nelems) - 1 |-> 0]
    /\ pflags = ProdFlagsOf({"NBENQ", "SCDEQ"})
    /\ cflags = ConsFlagsOf({"NBENQ", "SCDEQ"})
    /\ th = [t \in active |-> Local0]
    /\ seq = [p \in active \cap Producers |-> 0]
    /\ deqd = <<>>
    /\ scarce = [t \in {} |-> FALSE]
    /\ rbassert = "no"
    /\ rb = "live"
    /\ err = "none"
    /\ quota = [num |-> PENDMAX + 1, per |-> PENDMAX + 1, deq |-> PENDMAX + 1]

NextLarge ==
    \E t \in RingThreads :
        \/ SpAcquire(t)
        \/ MtLoadTail(t)
        \/ MtLoadHead(t)
        \/ MtCas(t)
        \/ Icas16(t)
        \/ Cas16(t)
        \/ WriteSlots(t)
        \/ ReadSlots(t)
        \/ RelStore(t)
        \/ RelCas(t)
        \/ RelPend(t)

\* The steps of a call of p64_ringbuf_enqueue by producer t, once started.
EnqueueStep(t) ==
    \/ MtLoadHead(t)
    \/ MtCas(t)
    \/ Cas16(t)
    \/ WriteSlots(t)
    \/ RelCas(t)
    \/ RelPend(t)

\* Calls of up to PENDMAX + 1 elements on a non-blocking ring; a producer
\* inside a call is scheduled again and again.
SpecLarge ==
    /\ InitLarge
    /\ [][NextLarge]_vars
    /\ \A t \in Producers : WF_vars(EnqueueStep(t))

\* One thread more than the reader field of the lock word can count.
Crowd == Threads \cup {"t4"}

InitCrowd ==
    /\ lock = 0
    /\ lpc = [t \in Crowd |-> "idle"]
    /\ ll = [t \in Crowd |-> 0]
    /\ count_rd = 0
    /\ count_wr = 0
    /\ numfailrd = 0
    /\ numfailwr = 0
    /\ nummultrd = FALSE
    /\ aborted = "no"
    /\ RingIdle

NextCrowd ==
    \E t \in Crowd :
        \/ StartLap(t)
        \/ RdWait(t)
        \/ RdCas(t)
        \/ RdEnter(t)
        \/ RdExit(t)
        \/ RdRelease(t)
        \/ WrWait(t)
        \/ WrCas(t)
        \/ WrDrain(t)
        \/ WrEnter(t)
        \/ WrExit(t)
        \/ WrCheck(t)
        \/ WrStore(t)

\* The lock benchmark with more threads than the reader field can count.
SpecCrowd == InitCrowd /\ [][NextCrowd]_vars

NextStray ==
    \E t \in Threads :
        \/ StartLap(t)
        \/ RdWait(t)
        \/ RdCas(t)
        \/ RdEnter(t)
        \/ RdExit(t)
        \/ RdRelease(t)
        \/ WrWait(t)
        \/ WrCas(t)
        \/ WrDrain(t)
        \/ WrEnter(t)
        \/ WrExit(t)
        \/ WrCheck(t)
        \/ WrStore(t)
        \/ StrayRelease(t)
        \/ StrayCheck(t)
        \/ StrayStore(t)

\* The lock benchmark with threads that may call release_wr on a lock they
\* have not acquired.
SpecStray == InitLock /\ [][NextStray]_vars

\* All steps of thread t on the lock.
LockStep(t) ==
    \/ StartLap(t)
    \/ RdWait(t)
    \/ RdCas(t)
    \/ RdEnter(t)
    \/ RdExit(t)
    \/ RdRelease(t)
    \/ WrWait(t)
    \/ WrCas(t)
    \/ WrDrain(t)
    \/ WrEnter(t)
    \/ WrExit(t)
    \/ WrCheck(t)
    \/ WrStore(t)

\* A workload and a schedule of the lock benchmark: t1 takes the lock for
\* reading or for writing, the other threads take it for reading only.
StarveLap(t) ==
    /\ StartLap(t)
    /\ t # "t1" => lpc'[t] = "rd_wait"

\* The schedule runs the compare-exchange of t1 when the word differs from
\* the value t1 loaded.
StarveCas(t) ==
    /\ t = "t1"
    /\ lock # ll[t]
    /\ RdCas(t) \/ WrCas(t)

OtherCas(t) ==
    /\ t # "t1"
    /\ RdCas(t)

\* The compare-exchange of acquire_rd succeeds.
RdCasOk(t) ==
    /\ RdCas(t)
    /\ lpc'[t] = "rd_enter"

NextStarve ==
    \E t \in Threads :
        \/ StarveLap(t)
        \/ RdWait(t)
        \/ WrWait(t)
        \/ StarveCas(t)
        \/ OtherCas(t)
        \/ RdEnter(t)
        \/ RdExit(t)
        \/ RdRelease(t)

\* Every thread is scheduled again and again: t1 whenever the word has
\* changed under its compare-exchange, the other threads so that their
\* compare-exchange succeeds eventually.
FairStarve ==
    /\ WF_vars(StarveLap("t1") \/ RdWait("t1") \/ WrWait("t1"))
    /\ SF_vars(StarveCas("t1"))
    /\ \A u \in Threads \ {"t1"} :
          /\ WF_vars(StarveLap(u) \/ RdWait(u) \/ RdEnter(u) \/ RdExit(u) \/ RdRelease(u))
          /\ SF_vars(RdCasOk(u))

SpecStarve == InitLock /\ [][NextStarve]_vars /\ FairStarve

\* The lock benchmark, every thread scheduled again and again.
SpecFair == InitLock /\ [][NextLock]_vars /\ \A t \in Threads : WF_vars(LockStep(t))

\* The compare-exchange of acquire_wr succeeds.
WrCasOk(t) ==
    /\ WrCas(t)
    /\ lpc'[t] = "wr_drain"

\* The lock benchmark, every thread scheduled again and again, and a weak
\* compare-exchange that finds the expected value again and again succeeds
\* eventually.
SpecLive ==
    /\ InitLock
    /\ [][NextLock]_vars
    /\ \A t \in Threads :
          /\ WF_vars(LockStep(t))
          /\ SF_vars(RdCasOk(t))
          /\ SF_vars(WrCasOk(t))

\* Rings with two threads on a blocking or non-blocking side and one thread
\* on the other, single-threaded, side.
InitNoWait ==
    /\ LockInit
    /\ atomics \in BOOLEAN
    /\ \E w \in {<<"NBENQ", "SCDEQ", {"p1", "p2", "c1"}>>,
                 <<"MPENQ", "SCDEQ", {"p1", "p2", "c1"}>>,
                 <<"SPENQ", "NBDEQ", {"p1", "c1", "c2"}>>,
                 <<"SPENQ", "MCDEQ", {"p1", "c1", "c2"}>>} :
          /\ pflags = ProdFlagsOf({w[1], w[2]})
          /\ cflags = ConsFlagsOf({w[1], w[2]})
          /\ req = [nelems |-> MaxNelems, flags |-> {w[1], w[2]}, mem |-> TRUE]
          /\ active = w[3]
    /\ ep = [prod |-> Endpoint(0, 0, 0, MaxNelems), cons |-> Endpoint(0, 0, 0, 0)]
    /\ prod_mask = ROUNDUP_POW2(MaxNelems) - 1
    /\ ring = [i \in 0 .. ROUNDUP_POW2(MaxNelems) - 1 |-> 0]
    /\ th = [t \in active |-> Local0]
    /\ seq = [p \in active \cap Producers |-> 0]
    /\ deqd = <<>>
    /\ scarce = [t \in {} |-> FALSE]
    /\ rbassert = "no"
    /\ rb = "live"
    /\ err = "none"
    /\ quota = [num |-> MaxNum, per |-> MaxPerProd, deq |-> 1]

NextNoWait ==
    \E t \in RingThreads :
        \/ SpAcquire(t)
        \/ MtLoadTail(t)
        \/ MtLoadHead(t)
        \/ MtCas(t)
        \/ Icas16(t)
        \/ Cas16(t)
        \/ WriteSlots(t)
        \/ ReadSlots(t)
        \/ RelWait(t)
        \/ RelStore(t)
        \/ RelCas(t)
        \/ RelPend(t)

\* No thread is bound to take another step.
SpecNoWait == InitNoWait /\ [][NextNoWait]_vars

\* A ring with one producer and two lock-free consumers.
InitLf ==
    /\ LockInit
    /\ atomics \in BOOLEAN
    /\ \E nelems \in 2 .. MaxNelems :
          /\ req = [nelems |-> nelems, flags |-> {"SPENQ", "MCDEQ", "LFDEQ"}, mem |-> TRUE]
          /\ ep = [prod |-> Endpoint(0, 0, 0, nelems), cons |-> Endpoint(0, 0, 0, 0)]
          /\ prod_mask = ROUNDUP_POW2(nelems) - 1
          /\ ring = [i \in 0 .. ROUNDUP_POW2(nelems) - 1 |-> 0]
    /\ pflags = ProdFlagsOf({"SPENQ", "MCDEQ", "LFDEQ"})
    /\ cflags = ConsFlagsOf({"SPENQ", "MCDEQ", "LFDEQ"})
    /\ active = {"p1", "c1", "c2"}
    /\ th = [t \in active |-> Local0]
    /\ seq = [p \in active \cap Producers |-> 0]
    /\ deqd = <<>>
    /\ scarce = [t \in {} |-> FALSE]
    /\ rbassert = "no"
    /\ rb = "live"
    /\ err = "none"
    /\ quota = [num |-> MaxNum, per |-> MaxPerProd + 1, deq |-> 1]

NextLf ==
    \E t \in RingThreads :
        \/ SpAcquire(t)
        \/ WriteSlots(t)
        \/ RelStore(t)
        \/ LfLoadHead(t)
        \/ LfLoadTail(t)
        \/ LfRead(t)
        \/ LfCas(t)
        \/ LfRelease(t)

\* No thread is bound to take another step.
SpecLf == InitLf /\ [][NextLf]_vars

\* The value of every index when the threads start: the ring has carried
\* WrapStart elements and is empty, so that the next element moves the
\* indices past the largest ringidx_t.
WrapStart == IdxMod - 1

\* The endpoints of an empty ring that has carried s elements, with no call in
\* progress: the indices of release_slots are s, and so is the tail of a side
\* that acquires with acquire_slots_mtsafe; the tail of the other sides is
\* never written.
EmptyAt(s, nelems, pf, cf) ==
    LET multi(f) == HasFlag(f, BitOr(FLAG_BLK, FLAG_NONBLK))
    IN  [prod |-> Endpoint(s, 0, IF multi(pf) THEN s ELSE 0, nelems),
         cons |-> Endpoint(s, 0, IF multi(cf) /\ ~HasFlag(cf, FLAG_LOCKFREE) THEN s ELSE 0, 0)]

\* A ring of any mode that acquires with acquire_slots or
\* acquire_slots_mtsafe, after WrapStart elements went through it; seq and
\* deqd count the elements from this state on, and the slots hold no payload
\* of these elements.
InitWrap ==
    /\ LockInit
    /\ atomics \in BOOLEAN
    /\ \E nelems \in 1 .. MaxNelems, pm \in ProdModes, cm \in ConsModes \ {"LFDEQ"} :
          /\ ~InvalidFlags({pm, cm})
          /\ pflags = ProdFlagsOf({pm, cm})
          /\ cflags = ConsFlagsOf({pm, cm})
          /\ req = [nelems |-> nelems, flags |-> {pm, cm}, mem |-> TRUE]
          /\ ep = EmptyAt(WrapStart, nelems, ProdFlagsOf({pm, cm}), ConsFlagsOf({pm, cm}))
          /\ prod_mask = ROUNDUP_POW2(nelems) - 1
          /\ ring = [i \in 0 .. ROUNDUP_POW2(nelems) - 1 |-> 0]
          /\ active \in Workloads(ProdFlagsOf({pm, cm}), ConsFlagsOf({pm, cm}))
    /\ th = [t \in active |-> Local0]
    /\ seq = [p \in active \cap Producers |-> 0]
    /\ deqd = <<>>
    /\ scarce = [t \in {} |-> FALSE]
    /\ rbassert = "no"
    /\ rb = "live"
    /\ err = "none"
    /\ quota = [num |-> MaxNum, per |-> MaxPerProd, deq |-> 1]

\* The threads that use one ring buffer whose indices are about to wrap.
SpecWrap == InitWrap /\ [][NextNoWait]_vars

\* The state p64_ringbuf_alloc returns for any nelems it accepts, and the
\* threads that use the ring: every producer enqueues one element, with
\* calls of num = 1.
InitBig ==
    /\ LockInit
    /\ atomics \in BOOLEAN
    /\ \E nelems \in 1 .. MAXELEMS, pm \in ProdModes, cm \in ConsModes :
          /\ ~InvalidFlags({pm, cm})
          /\ pflags = ProdFlagsOf({pm, cm})
          /\ cflags = ConsFlagsOf({pm, cm})
          /\ req = [nelems |-> nelems, flags |-> {pm, cm}, mem |-> TRUE]
          /\ ep = [prod |-> Endpoint(0, 0, 0, nelems), cons |-> Endpoint(0, 0, 0, 0)]
          /\ prod_mask = Idx(ROUNDUP_POW2(nelems) - 1)
          /\ ring = [i \in 0 .. ROUNDUP_POW2(nelems) - 1 |-> 0]
          /\ active \in Workloads(ProdFlagsOf({pm, cm}), ConsFlagsOf({pm, cm}))
    /\ th = [t \in active |-> Local0]
    /\ seq = [p \in active \cap Producers |-> 0]
    /\ deqd = <<>>
    /\ scarce = [t \in {} |-> FALSE]
    /\ rbassert = "no"
    /\ rb = "live"
    /\ err = "none"
    /\ quota = [num |-> 1, per |-> 1, deq |-> 1]

\* The threads that use one ring buffer of any size.
SpecBig == InitBig /\ [][NextRing]_vars

Init == InitRing

Next == NextLock \/ NextRing

Spec == Init /\ [][Next]_vars

(***************************************************************************)
(* Properties of the reader/writer lock, checked under SpecLock.           *)
(***************************************************************************)
\* A thread between the return of acquire_rd and its release of the lock.
InsideRd(t) == lpc[t] \in {"rd_enter", "rd_exit", "rd_release"}

\* A thread between the return of acquire_wr and its release of the lock.
InsideWr(t) == lpc[t] \in {"wr_enter", "wr_exit", "wr_check", "wr_store"}

HasWriter(l) == BitAnd(l, RWLOCK_WRITER) # 0

Readers(l) == BitAnd(l, RWLOCK_READERS)

\* C1: a thread that holds the lock for writing is never inside together with
\* another writer or with a reader, and the benchmark's numfailrd and
\* numfailwr stay 0.
C1_MutualExclusion ==
    /\ \A t \in Threads : InsideWr(t) =>
          \A u \in Threads \ {t} : ~InsideWr(u) /\ ~InsideRd(u)
    /\ numfailrd = 0
    /\ numfailwr = 0

\* C1, witness: readers have been inside together, and now a writer is in its
\* critical section while another thread attempts to take the lock.
C1_Witness ==
    /\ nummultrd
    /\ \E t \in Threads : lpc[t] = "wr_exit" /\ count_wr = 1
    /\ \E u \in Threads : lpc[u] = "rd_cas"

\* C2: release_rd by a thread that holds the lock for reading never signals
\* an invalid release.
C2_ReadReleaseNeverAborts == aborted # "read release"

\* C3: either the writer bit is set and the reader count is 0, or the writer
\* bit is clear.
C3_WordInvariant == HasWriter(lock) => Readers(lock) = 0

\* C3, amended: the writer bit is clear, or the reader count is 0, or the
\* writer that set the bit is still in acquire_wr, waiting for the readers
\* to leave, and no thread holds the lock for writing.
C3_WordInvariantAmended ==
    (HasWriter(lock) /\ Readers(lock) # 0) =>
        /\ \E t \in Threads : lpc[t] = "wr_drain"
        /\ \A t \in Threads : ~InsideWr(t)

\* C3, witness: the writer bit is set while a reader is inside.
C3_Witness ==
    /\ HasWriter(lock)
    /\ Readers(lock) # 0
    /\ \E t \in Threads : InsideRd(t)

(***************************************************************************)
(* Properties of the ring buffer, checked under SpecRing and SpecWatch.    *)
(***************************************************************************)
ActiveProducers == active \cap Producers

ActiveConsumers == active \cap Consumers

\* A thread that has acquired slots [index, index + actual) with
\* acquire_slots or acquire_slots_mtsafe and has not released them yet.
Holding(t) == th[t].pc \in {"slots", "rel_wait", "rel_store", "rel_cas", "rel_pend"}

\* A lock-free consumer with a result of p64_ringbuf_acquire_ not yet passed
\* to p64_ringbuf_release_.
HoldingLf(t) == th[t].pc \in {"lf2_read", "lf2_rel"}

\* The slot indices of the acquire result of thread t.
IndexRange(t) == {Idx(th[t].index + k) : k \in 0 .. th[t].actual - 1}

\* The ring positions of the acquire result of thread t.
SlotRange(t) == {BitAnd(i, prod_mask) : i \in IndexRange(t)}

\* The payloads whose enqueue call has returned.
Enqueued == {Payload(p, k) : p \in ActiveProducers, k \in 1 .. quota.per} \cap
            UNION {{Payload(p, k) : k \in 1 .. seq[p]} : p \in ActiveProducers}

\* The payloads returned by dequeue calls, in order of return.
DeqPayloads == [i \in 1 .. Len(deqd) |-> deqd[i][2]]

\* The slot indices returned by dequeue calls, in order of return.
DeqIndices == [i \in 1 .. Len(deqd) |-> deqd[i][1]]

\* The payloads in the slots released by the producers and not yet released
\* by the consumers, from the oldest.
InRing ==
    [k \in 1 .. Idx(ep.cons.cur - ep.prod.cur) |->
        ring[BitAnd(Idx(ep.prod.cur + k - 1), prod_mask)]]

Quiescent == \A t \in active : th[t].pc = "idle"

NoDuplicates(q) == \A i, j \in 1 .. Len(q) : i # j => q[i] # q[j]

Elems(q) == {q[i] : i \in 1 .. Len(q)}

\* The elements acquired by enqueues and not yet returned by a dequeue.
Occupied ==
    LET total[S \in SUBSET ActiveProducers] ==
            IF S = {} THEN 0
            ELSE LET p == CHOOSE x \in S : TRUE
                 IN  seq[p] + (IF Holding(p) THEN th[p].actual ELSE 0) + total[S \ {p}]
    IN  total[ActiveProducers] - Len(deqd)

MultiProducer == HasFlag(pflags, BitOr(FLAG_BLK, FLAG_NONBLK))

MultiConsumer == HasFlag(cflags, BitOr(FLAG_BLK, FLAG_NONBLK))

LockFree == HasFlag(cflags, FLAG_LOCKFREE)

\* C4: every payload is returned by at most one dequeue, only payloads of
\* completed enqueues are returned, and with no call in progress the dequeued
\* payloads together with the payloads in the ring are the enqueued payloads,
\* each exactly once.
C4_ExactlyOnce ==
    /\ NoDuplicates(DeqPayloads)
    /\ Elems(DeqPayloads) \subseteq Enqueued
    /\ Quiescent =>
          /\ NoDuplicates(DeqPayloads \o InRing)
          /\ Elems(DeqPayloads \o InRing) = Enqueued

\* C4, witness: no call is in progress on a ring with non-blocking producers
\* and lock-free consumers; elements of both producers have been dequeued and
\* another element is in the ring.
C4_Witness ==
    /\ Quiescent
    /\ pflags = FLAG_NONBLK
    /\ LockFree
    /\ \E i, j \in 1 .. Len(deqd) : deqd[i][2] = Payload("p1", 1) /\ deqd[j][2] = Payload("p2", 1)
    /\ Len(InRing) > 0

\* C5: cons.head.cur is never past a slot a producer has acquired and not yet
\* released, prod.head.cur is never past a slot a blocking or non-blocking
\* consumer has acquired and not yet released, such a consumer holds only slots
\* the producers have released, and no slot of the ring is held by a producer
\* and by such a consumer at once.
C5_Uncommitted ==
    /\ \A p \in ActiveProducers : Holding(p) =>
          /\ SInt(Idx(th[p].index - ep.cons.cur)) >= 0
          /\ \A i \in 1 .. Len(deqd) : deqd[i][1] \notin IndexRange(p)
                                       \/ deqd[i][2] \in Enqueued
    /\ \A c \in ActiveConsumers : Holding(c) =>
          /\ SInt(Idx(th[c].index - ep.prod.cur)) >= 0
          /\ SInt(Idx(ep.cons.cur - (th[c].index + th[c].actual))) >= 0
          /\ \A p \in ActiveProducers : Holding(p) => SlotRange(p) \cap SlotRange(c) = {}
    /\ \A c \in ActiveConsumers : \A k \in 1 .. Len(th[c].ev) :
          Holding(c) => th[c].ev[k] \in Enqueued

\* C5, witness: a non-blocking producer has released the second of two
\* acquired slots, recorded as pending, while the producer of the first slot
\* still holds it and the consumer has found the ring empty.
C5_Witness ==
    /\ ep.cons.pend # 0
    /\ \E p \in ActiveProducers : Holding(p) /\ th[p].index = ep.cons.cur
    /\ \E c \in ActiveConsumers : th[c].pc = "idle" /\ th[c].ret = 0

\* C6: on a single-producer/single-consumer ring the dequeued payloads are,
\* in order, a prefix of the enqueued payloads.
C6_Fifo ==
    (~MultiProducer /\ ~MultiConsumer /\ ~LockFree) =>
        /\ Len(deqd) <= seq["p1"]
        /\ \A i \in 1 .. Len(deqd) : deqd[i][2] = Payload("p1", i)

\* C6, witness: both elements of the single producer have been dequeued by
\* the single consumer, after a wrap of the ring.
C6_Witness ==
    /\ ~MultiProducer /\ ~MultiConsumer /\ ~LockFree
    /\ prod_mask = 0
    /\ DeqPayloads = <<Payload("p1", 1), Payload("p1", 2)>>

\* C7: the number of elements enqueued and not yet dequeued never exceeds
\* nelems; a step of an enqueue taken when the ring holds nelems elements
\* acquires no slot and leaves the ring unchanged, and the call returns 0.
C7_CapacityInv == Occupied <= ep.prod.capacity

C7_FullStep ==
    \A p \in ActiveProducers :
        (/\ Occupied = ep.prod.capacity
         /\ th[p].pc \in {"idle", "mt_head", "mt_cas", "cas16"}
         /\ th'[p] # th[p])
        => /\ ep' = ep
           /\ ring' = ring
           /\ th'[p].pc \in {"idle", "mt_head", "mt_cas", "cas16"}
           /\ th'[p].pc = "idle" => th'[p].ret = 0

C7_Capacity == []C7_CapacityInv /\ [][C7_FullStep]_vars

\* C7, witness: a ring of nelems = 3 (ring size 4) holds 3 elements and an
\* enqueue has returned 0.
C7_Witness ==
    /\ ep.prod.capacity = 3
    /\ prod_mask = 3
    /\ Occupied = 3
    /\ \E p \in ActiveProducers : th[p].pc = "idle" /\ th[p].ret = 0

\* C8: prod.head.cur <= prod.tail <= prod.head.cur + capacity in every
\* producer mode.
C8_IndexInvariant == Idx(ep.prod.tail - ep.prod.cur) <= ep.prod.capacity

\* C8, amended: the index invariant holds in the multi-producer modes; in
\* single-producer mode prod.tail is not used and stays 0, and cons.head.cur
\* is the tail: prod.head.cur <= cons.head.cur <= prod.head.cur + capacity.
C8_IndexInvariantAmended ==
    IF MultiProducer
    THEN Idx(ep.prod.tail - ep.prod.cur) <= ep.prod.capacity
    ELSE /\ ep.prod.tail = 0
         /\ Idx(ep.cons.cur - ep.prod.cur) <= ep.prod.capacity

\* C8, witness: a ring of non-blocking producers is full after its consumer
\* has released an element.
C8_Witness ==
    /\ pflags = FLAG_NONBLK
    /\ ep.prod.cur > 0
    /\ Idx(ep.prod.tail - ep.prod.cur) = ep.prod.capacity
    /\ ep.prod.capacity > 1

C10_ZeroMeansFullOrEmpty ==
    \A t \in DOMAIN scarce :
        (th[t].pc = "idle" /\ th[t].ret = 0) => scarce[t]

\* A lock-free consumer whose next step is the compare-exchange of
\* p64_ringbuf_dequeue.
AtLfCas(t) == t \in ActiveConsumers /\ th[t].pc = "lf_cas"

\* C11: with lock-free consumers no slot index and no payload is returned by
\* two dequeues; a dequeuer that has read slots in advance and whose head is
\* still prod.head.cur holds payloads of completed enqueues that no dequeue
\* has returned.
C11_LfInv ==
    LockFree =>
        /\ NoDuplicates(DeqIndices)
        /\ NoDuplicates(DeqPayloads)
        /\ \A t \in ActiveConsumers :
              (AtLfCas(t) /\ th[t].head = ep.prod.cur) =>
                  \A k \in 1 .. th[t].actual :
                      /\ th[t].ev[k] \in Enqueued
                      /\ th[t].ev[k] \notin Elems(DeqPayloads)

\* C11: a compare-exchange that fails returns nothing of what was read in
\* advance: the call returns 0 or starts again at the current prod.head.cur
\* with nothing read; one that succeeds returns exactly what was read.
C11_LfStep ==
    \A t \in ActiveConsumers :
        (AtLfCas(t) /\ th'[t] # th[t]) =>
            IF ep' # ep
            THEN /\ th[t].head = ep.prod.cur
                 /\ th'[t].pc = "idle" /\ th'[t].ret = th[t].actual
                 /\ Len(deqd') = Len(deqd) + th[t].actual
                 /\ \A k \in 1 .. th[t].actual :
                       deqd'[Len(deqd) + k] = <<Idx(th[t].head + k - 1), th[t].ev[k]>>
            ELSE /\ deqd' = deqd
                 /\ ep' = ep
                 /\ \/ th'[t].pc = "idle" /\ th'[t].ret = 0
                    \/ /\ th'[t].pc = "lf_read"
                       /\ th'[t].head = ep.prod.cur
                       /\ th'[t].index = ep.prod.cur
                       /\ th'[t].ev = <<>>
                       /\ th'[t].actual > 0

C11_LfUnique == []C11_LfInv /\ [][C11_LfStep]_vars

\* C11, witness: a lock-free consumer is about to compare-exchange a head
\* that another consumer has moved, having read in advance a payload that the
\* other consumer's dequeue has returned.
C11_Witness ==
    /\ LockFree
    /\ HasFlag(pflags, FLAG_BLK)
    /\ \E t \in ActiveConsumers :
          /\ AtLfCas(t)
          /\ th[t].head # ep.prod.cur
          /\ th[t].ev[1] \in Elems(DeqPayloads)

(***************************************************************************)
(* Properties of p64_ringbuf_alloc and p64_ringbuf_free.                   *)
(***************************************************************************)
\* The arguments the claim C12 says are refused.
Refused ==
    \/ req.nelems = 0
    \/ "OTHER" \in req.flags
    \/ {"SPENQ", "NBENQ"} \subseteq req.flags
    \/ {"SCDEQ", "NBDEQ"} \subseteq req.flags
    \/ {"SCDEQ", "LFDEQ"} \subseteq req.flags
    \/ {"NBDEQ", "LFDEQ"} \subseteq req.flags

\* No memory has been allocated and no field written.
NothingAllocated ==
    /\ ring = [i \in {} |-> 0]
    /\ ep = [prod |-> Endpoint(0, 0, 0, 0), cons |-> Endpoint(0, 0, 0, 0)]

\* A handle whose indices and pending bitmaps are 0 and whose producer
\* capacity is nelems.
FreshHandle ==
    /\ rb = "live"
    /\ ep.prod = Endpoint(0, 0, 0, req.nelems)
    /\ ep.cons = Endpoint(0, 0, 0, 0)
    /\ DOMAIN ring = 0 .. prod_mask
    /\ prod_mask + 1 >= req.nelems

\* C12: p64_ringbuf_alloc returns NULL, having reported an error and
\* allocated nothing, for the refused arguments, and a fresh handle for all
\* other arguments.
C12_AllocValidation ==
    rb # "none" =>
        IF Refused
        THEN rb = "null" /\ err # "none" /\ NothingAllocated
        ELSE FreshHandle

\* C12, amended: for the arguments that are not refused, p64_ringbuf_alloc
\* returns a fresh handle if p64_malloc gives the memory, and NULL with no
\* error reported if it does not.
C12_AllocValidationAmended ==
    rb # "none" =>
        IF Refused
        THEN rb = "null" /\ err # "none" /\ NothingAllocated
        ELSE IF req.mem
        THEN FreshHandle /\ err = "none"
        ELSE rb = "null" /\ err = "none" /\ NothingAllocated

\* C12, witness: multi-producer enqueue with single-consumer and lock-free
\* dequeue has been refused as invalid flags.
C12_Witness ==
    /\ rb = "null"
    /\ err = "invalid flags"
    /\ req.flags = {"MPENQ", "SCDEQ", "LFDEQ"}
    /\ req.nelems = 3
    /\ req.mem

\* C13: a ring that has been deallocated had prod.head.cur = cons.head.cur,
\* one that p64_ringbuf_free reported as not empty has not and is still
\* allocated, and with no call in progress the two indices are equal exactly
\* when the ring holds no element.
C13_FreeInv ==
    /\ rb = "freed" => ep.prod.cur = ep.cons.cur /\ err = "none"
    /\ err = "ring buffer not empty" => rb = "live" /\ ep.prod.cur # ep.cons.cur
    /\ (Quiescent /\ rbassert = "no") =>
          ((ep.prod.cur = ep.cons.cur) <=> (Occupied = 0 /\ Len(InRing) = 0))

\* C13: a call of p64_ringbuf_free with different indices reports "ring
\* buffer not empty" and leaves the ring allocated and unchanged; with equal
\* indices it deallocates the ring.
C13_FreeStep ==
    (rb' # rb \/ err' # err) =>
        /\ UNCHANGED <<ep, ring, prod_mask, pflags, cflags, th, seq, deqd>>
        /\ IF ep.prod.cur # ep.cons.cur
           THEN rb' = "live" /\ err' = "ring buffer not empty"
           ELSE rb' = "freed" /\ err' = "none"

C13_Free == []C13_FreeInv /\ [][C13_FreeStep]_vars

\* C13, witness: p64_ringbuf_free has refused to free a ring of non-blocking
\* producers that holds one element after another has been dequeued.
C13_Witness ==
    /\ err = "ring buffer not empty"
    /\ rb = "live"
    /\ pflags = FLAG_NONBLK
    /\ Len(deqd) = 1
    /\ Len(InRing) = 1

\* The number of elements of producer p among the first i dequeued.
RECURSIVE DeqCount(_, _)
DeqCount(p, i) ==
    IF i = 0 THEN 0
    ELSE DeqCount(p, i - 1) + (IF deqd[i][2] \div 10 = ProdNo(p) THEN 1 ELSE 0)

\* C14: on a ring of blocking producers and a single consumer, the elements
\* are dequeued in the order of the slot indices, the i-th element dequeued
\* is the next element of the producer it comes from, and once the ring is
\* drained with no call in progress the dequeued payloads are those the
\* producers enqueued, each once.
C14_ProducerOrder ==
    (pflags = FLAG_BLK /\ cflags = 0) =>
        /\ \A i \in 1 .. Len(deqd) :
              /\ deqd[i][1] = Idx(i - 1)
              /\ \E p \in ActiveProducers : deqd[i][2] = Payload(p, DeqCount(p, i))
        /\ (Quiescent /\ Len(InRing) = 0) =>
              /\ Elems(DeqPayloads) = Enqueued
              /\ Len(deqd) = Cardinality(Enqueued)

\* C14, witness: two blocking producers have enqueued two elements each and
\* the single consumer has dequeued all four, the first from the second
\* producer.
C14_Witness ==
    /\ pflags = FLAG_BLK /\ cflags = 0
    /\ ActiveProducers = Producers
    /\ Len(deqd) = 4
    /\ deqd[1][2] = Payload("p2", 1)
    /\ deqd[2][2] = Payload("p1", 1)
    /\ Quiescent

\* Two non-blocking producers that hold one slot each, q the slot after p's.
NbPair(p, q) ==
    /\ pflags = FLAG_NONBLK
    /\ p \in ActiveProducers /\ q \in ActiveProducers
    /\ Holding(p) /\ Holding(q)
    /\ th[p].actual = 1 /\ th[q].actual = 1
    /\ th[q].index = Idx(th[p].index + 1)

\* Producer p holds slot cons.head.cur alone and the slot after it is
\* recorded as pending.
NbLate(p) ==
    /\ pflags = FLAG_NONBLK
    /\ p \in ActiveProducers
    /\ Holding(p)
    /\ th[p].actual = 1
    /\ th[p].index = ep.cons.cur
    /\ ep.cons.pend = 2

\* C15: while a slot is pending, the producer of slot cons.head.cur still
\* holds it and nothing at or after cons.head.cur has been dequeued; the
\* update that the producer of slot i prepares against {i, pending slot i+1}
\* is {i+2, 0}.
C15_PendingInv ==
    pflags = FLAG_NONBLK =>
        /\ ep.cons.pend # 0 =>
              /\ \E p \in ActiveProducers : Holding(p) /\ th[p].index = ep.cons.cur
              /\ \A i \in 1 .. Len(deqd) : SInt(Idx(deqd[i][1] - ep.cons.cur)) < 0
              /\ \A c \in ActiveConsumers : \A i \in IndexRange(c) :
                    (Holding(c) \/ HoldingLf(c) \/ th[c].pc \in {"lf_read", "lf_cas"})
                    => SInt(Idx(i - ep.cons.cur)) < 0
        /\ \A p \in ActiveProducers :
              (th[p].pc = "rel_pend" /\ th[p].actual = 1 /\ th[p].old = <<th[p].index, 2>>)
              => th[p].neu = <<Idx(th[p].index + 2), 0>>

\* C15: when the producer of slot i+1 releases before the producer of slot
\* i, cons.head.cur stays i and slot i+1 becomes pending; when the producer of
\* slot i then releases, one step moves cons.head.cur to i+2 and clears the
\* pending bitmap.
C15_ReleaseStep ==
    \A p, q \in ActiveProducers :
        /\ (NbPair(p, q) /\ th'[q].pc = "idle") =>
              /\ th'[q].ret = 1
              /\ th[p].index = ep.cons.cur
              /\ ep'.cons.cur = th[p].index
              /\ ep'.cons.pend = 2
        /\ (NbLate(p) /\ th'[p].pc = "idle") =>
              /\ th'[p].ret = 1
              /\ ep'.cons.cur = Idx(th[p].index + 2)
              /\ ep'.cons.pend = 0

C15_OutOfOrderRelease == []C15_PendingInv /\ [][C15_ReleaseStep]_vars

\* C15, witness: the producer of slot i+1 has returned from its enqueue, the
\* slot is pending, and the producer of slot i, i > 0, has found that its
\* in-order release is not possible.
C15_Witness ==
    /\ \E p \in ActiveProducers :
          /\ NbLate(p)
          /\ th[p].pc = "rel_pend"
          /\ th[p].index > 0
    /\ \E q \in ActiveProducers : th[q].pc = "idle" /\ th[q].ret = 1

\* The free slots acquire_slots_mtsafe finds for a producer.
FreeSlots == SInt(Idx(ep.prod.capacity + ep.prod.cur - ep.prod.tail))

\* Producer p is the only producer of the ring.
SingleCaller(p) == ActiveProducers = {p}

\* C16: a release of more than PENDMAX slots never goes through the pending
\* bitmap.
C16_LargeInv ==
    \A p \in ActiveProducers :
        th[p].actual > PENDMAX => th[p].pc # "rel_pend"

\* C16: a single caller that asks for PENDMAX + 1 slots when that many are
\* free gets them all; a call that holds more than PENDMAX slots returns in a
\* step that finds {idx, 0} and leaves {idx + n, 0}, and returns n.
C16_LargeStep ==
    \A p \in ActiveProducers :
        /\ (/\ SingleCaller(p)
            /\ FreeSlots >= PENDMAX + 1
            /\ th'[p] # th[p]
            /\ \/ th[p].pc = "idle"
               \/ th[p].pc = "mt_head" /\ th[p].n = PENDMAX + 1)
           => /\ th'[p].pc # "idle"
              /\ (th'[p].pc \in {"mt_cas", "cas16"} /\ th'[p].n = PENDMAX + 1)
                 => th'[p].actual = PENDMAX + 1
        /\ (Holding(p) /\ th[p].actual > PENDMAX /\ th'[p].pc = "idle")
           => /\ ep.cons.cur = th[p].index
              /\ ep.cons.pend = 0
              /\ ep'.cons.cur = Idx(th[p].index + th[p].actual)
              /\ ep'.cons.pend = 0
              /\ th'[p].ret = th[p].actual

\* C16: the call of a single caller that has been granted PENDMAX + 1 slots
\* returns PENDMAX + 1.
C16_LargeReturns ==
    (/\ SingleCaller("p1")
     /\ th["p1"].pc # "idle"
     /\ th["p1"].n = PENDMAX + 1
     /\ th["p1"].actual = PENDMAX + 1)
    ~> (th["p1"].pc = "idle" /\ th["p1"].ret = PENDMAX + 1)

C16_LargeRelease == []C16_LargeInv /\ [][C16_LargeStep]_vars /\ C16_LargeReturns

\* C16, witness: the only producer of a ring of nelems = PENDMAX + 2 has
\* returned PENDMAX + 1 from one enqueue, the slots are released and the
\* pending bitmap is 0.
C16_Witness ==
    /\ SingleCaller("p1")
    /\ ep.prod.capacity = PENDMAX + 2
    /\ th["p1"].pc = "idle"
    /\ th["p1"].ret = PENDMAX + 1
    /\ ep.cons.cur = PENDMAX + 1
    /\ ep.cons.pend = 0

(***************************************************************************)
(* Properties of the lock with exhausted reader field, under SpecCrowd.    *)
(***************************************************************************)
\* C17: when every value of the reader field is taken (RWLOCK_READERS
\* readers hold the lock), the compare-exchange of a further acquire_rd
\* leaves the writer bit clear and the call does not return.
C17_NoReaderOverflow ==
    [][\A t \in Crowd :
          (/\ lock = RWLOCK_READERS
           /\ Cardinality({u \in Crowd : InsideRd(u)}) = RWLOCK_READERS
           /\ lpc[t] = "rd_cas"
           /\ lpc'[t] # "rd_cas")
          => /\ ~HasWriter(lock')
             /\ lpc'[t] # "rd_enter"]_vars

(***************************************************************************)
(* Properties of release_wr, under SpecStray.                              *)
(***************************************************************************)
\* No release_wr of a thread that had not acquired the lock has passed its
\* check.
NoStrayStore == \A t \in Threads : lpc[t] \notin {"stray_store", "stray_done"}

\* C18: as long as the only calls are acquire and release calls of the
\* benchmark's threads, the word is RWLOCK_WRITER while a thread holds the
\* write lock.
C18_HolderInv ==
    NoStrayStore => \A t \in Threads : InsideWr(t) => lock = RWLOCK_WRITER

\* C18: the check of the holder's release_wr passes and its store sets the
\* word to 0; the check of a release_wr that finds a word other than
\* RWLOCK_WRITER calls abort() and leaves the word as it is.
C18_ReleaseStep ==
    \A t \in Threads :
        /\ (NoStrayStore /\ lpc[t] = "wr_check" /\ lpc'[t] # "wr_check")
           => lpc'[t] = "wr_store" /\ aborted' = "no" /\ lock' = lock
        /\ (lpc[t] = "wr_store" /\ lpc'[t] # "wr_store")
           => lpc'[t] = "idle" /\ lock' = 0
        /\ (/\ lpc[t] \in {"wr_check", "stray_check"}
            /\ lock # RWLOCK_WRITER
            /\ lpc'[t] # lpc[t])
           => lpc'[t] = "abort" /\ aborted' = "write release" /\ lock' = lock

C18_WriteRelease == []C18_HolderInv /\ [][C18_ReleaseStep]_vars

\* C18, witness: a release_wr by a thread that has not acquired the lock has
\* called abort() on a word that holds the writer bit and a reader, while
\* another thread waits in acquire_wr for a reader that is inside.
C18_Witness ==
    /\ aborted = "write release"
    /\ HasWriter(lock)
    /\ Readers(lock) # 0
    /\ \E t \in Threads : lpc[t] = "wr_drain"
    /\ \E t \in Threads : InsideRd(t)

(***************************************************************************)
(* Starvation, under SpecStarve.                                           *)
(***************************************************************************)
\* A thread in the loop of acquire_wr, before its compare-exchange has set
\* the writer flag; a thread in the loop of acquire_rd.
WrWaiting(t) == lpc[t] \in {"wr_wait", "wr_cas"}

RdWaiting(t) == lpc[t] \in {"rd_wait", "rd_cas"}

\* C19: the behaviours of SpecStarve are behaviours of the lock benchmark in
\* which every thread takes steps again and again.
C19_FairBehaviour ==
    /\ [][NextLock]_vars
    /\ \A t \in Threads : WF_vars(LockStep(t))
    /\ \A t \in Threads : []<><<LockStep(t)>>_vars

\* C19: in these behaviours t1 calls acquire_wr or acquire_rd and stays in
\* the loop of that call forever, the writer flag is never set, and the
\* other threads acquire and release the lock again and again.
C19_Starved ==
    /\ <>(WrWaiting("t1") \/ RdWaiting("t1"))
    /\ [][/\ WrWaiting("t1") => WrWaiting("t1")'
          /\ RdWaiting("t1") => RdWaiting("t1")']_vars
    /\ [](~HasWriter(lock) /\ aborted = "no")
    /\ \A u \in Threads \ {"t1"} : []<>InsideRd(u) /\ []<>(lpc[u] = "idle")

C19_NoStarvationFreedom == C19_FairBehaviour /\ C19_Starved

\* C19, witness: t1 is at the compare-exchange of acquire_wr with a loaded
\* value that the word no longer has, after the other threads have been
\* inside together, and one of them is inside.
C19_Witness ==
    /\ lpc["t1"] = "wr_cas"
    /\ ll["t1"] # lock
    /\ nummultrd
    /\ InsideRd("t2")

(***************************************************************************)
(* Writer priority, under SpecFair.                                        *)
(***************************************************************************)
\* A thread whose compare-exchange in acquire_wr has set the writer flag and
\* that has not yet stored 0 in release_wr.
Flagged(t) == lpc[t] \in {"wr_drain", "wr_enter", "wr_exit", "wr_check", "wr_store"}

\* C20, safety: while a writer is flagged, no other thread's acquire_rd
\* increments the reader count and returns, and no other thread's acquire_wr
\* sets the flag or returns.
C20_NoOvertake ==
    \A t \in Threads : Flagged(t) =>
        \A u \in Threads \ {t} :
            /\ lpc[u] = "rd_cas" => lpc'[u] # "rd_enter"
            /\ lpc[u] = "wr_cas" => lpc'[u] # "wr_drain"
            /\ lpc[u] = "wr_drain" => lpc'[u] # "wr_enter"

\* C20, progress: a flagged writer that waits for the readers inside enters
\* its critical section.
C20_FlaggedEnters ==
    \A t \in Threads : (lpc[t] = "wr_drain") ~> (lpc[t] = "wr_enter")

\* C20: writer priority once flagged.
C20_WriterPriority == [][C20_NoOvertake]_vars /\ C20_FlaggedEnters

(***************************************************************************)
(* Deadlock freedom of the lock, under SpecLive.                           *)
(***************************************************************************)
\* A thread inside acquire_rd or acquire_wr.
Acquiring(t) == lpc[t] \in {"rd_wait", "rd_cas", "wr_wait", "wr_cas", "wr_drain"}

\* A step in which acquire_rd or acquire_wr returns.
AcquireReturns ==
    \E t \in Threads :
        \/ lpc[t] = "rd_cas" /\ lpc'[t] = "rd_enter"
        \/ lpc[t] = "wr_drain" /\ lpc'[t] = "wr_enter"

\* C21: the threads do not stay in acquire calls forever with no acquire
\* returning any more; and from a state with lock word 0 and a thread in an
\* acquire call, a thread gets past its acquire call.
C21_DeadlockFree ==
    /\ ([]<>(\A t \in Threads : ~Acquiring(t))) \/ []<><<AcquireReturns>>_vars
    /\ (lock = 0 /\ \E t \in Threads : Acquiring(t))
          ~> (\E t \in Threads : lpc[t] \in {"rd_enter", "wr_enter"})

(***************************************************************************)
(* Properties of the pending bitmap, under SpecRing.                       *)
(***************************************************************************)
\* The endpoints released to with FLAG_NONBLK: cons by NBENQ producers, prod
\* by NBDEQ consumers.
NbEndpoints ==
    (IF HasFlag(pflags, FLAG_NONBLK) THEN {"cons"} ELSE {}) \cup
    (IF HasFlag(cflags, FLAG_NONBLK) THEN {"prod"} ELSE {})

\* The threads that release to endpoint e, and the tail up to which they have
\* acquired slots.
Acquirers(e) == IF e = "cons" THEN ActiveProducers ELSE ActiveConsumers

AcqTail(e) == IF e = "cons" THEN ep.prod.tail ELSE ep.cons.tail

\* Slot index i, at or after cur of endpoint e, has been acquired and its
\* acquirer has returned from release_slots.
ReleasedAt(e, i) ==
    /\ SInt(Idx(i - ep[e].cur)) >= 0
    /\ SInt(Idx(AcqTail(e) - i)) > 0
    /\ \A t \in Acquirers(e) : Holding(t) => i \notin IndexRange(t)

PendBit(x, k) == (x \div Pow2(k)) % 2

RECURSIVE PopCount(_)
PopCount(x) == IF x = 0 THEN 0 ELSE (x % 2) + PopCount(x \div 2)

\* C22: bit k of pend is set exactly when slot cur + k has been released and
\* cur has not advanced past it; bit 0 is never set; fewer than PENDMAX bits
\* are set.
C22_PendInv ==
    \A e \in NbEndpoints :
        /\ \A k \in 0 .. PENDMAX - 1 :
              PendBit(ep[e].pend, k) = 1 <=> ReleasedAt(e, Idx(ep[e].cur + k))
        /\ PendBit(ep[e].pend, 0) = 0
        /\ PopCount(ep[e].pend) < PENDMAX

\* C22: a step that advances cur of a non-blocking endpoint advances it over
\* acquired slots that no thread holds any more, and stops at a slot that is
\* not released.
C22_CurStep ==
    \A e \in NbEndpoints :
        ep'[e].cur # ep[e].cur =>
            /\ SInt(Idx(ep'[e].cur - ep[e].cur)) > 0
            /\ SInt(Idx(AcqTail(e) - ep'[e].cur)) >= 0
            /\ \A d \in 0 .. Idx(ep'[e].cur - ep[e].cur) - 1 :
                  \A t \in Acquirers(e) :
                      Holding(t)' => Idx(ep[e].cur + d) \notin IndexRange(t)'
            /\ ~ReleasedAt(e, ep[e].cur)'

C22_PendingBitmap == []C22_PendInv /\ [][C22_CurStep]_vars

\* C22, witness: on a ring with two NBDEQ consumers the second slot has been
\* released out of order (pend = 2) while the first is still held.
C22_Witness ==
    /\ HasFlag(cflags, FLAG_NONBLK)
    /\ ep.prod.pend = 2
    /\ \E c \in ActiveConsumers : Holding(c) /\ th[c].index = ep.prod.cur
    /\ \E c \in ActiveConsumers : th[c].pc = "idle" /\ th[c].ret = 1

(***************************************************************************)
(* The assertions of the non-blocking release, under SpecLarge.            *)
(***************************************************************************)
\* C23: no assertion of release_slots has failed, and for every thread in
\* the do-loop of the pending bitmap, with the {cur, pend} it last read:
\* n < PENDMAX, n + offset <= PENDMAX, no overlap with the pending bits,
\* inorder <= PENDMAX and the lowest bit of the new mask is 0.
C23_AssertionsHold ==
    /\ rbassert = "no"
    /\ \A t \in active :
          th[t].pc = "rel_pend" =>
              LET n == th[t].actual
                  old == th[t].old
                  offset == Idx(th[t].index - old[1])
                  ourpend == (Pow2(n) - 1) * Pow2(offset)
                  newpend == BitOr(old[2], ourpend)
              IN  /\ n >= 1
                  /\ n < PENDMAX
                  /\ n + offset <= PENDMAX
                  /\ BitAnd(old[2], ourpend) = 0
                  /\ TrailingOnes(newpend) <= PENDMAX
                  /\ th[t].neu[2] % 2 = 0
                  /\ th[t].neu[2] = newpend \div Pow2(TrailingOnes(newpend))

\* C23, witness: a producer is in the do-loop with n + offset = PENDMAX,
\* behind a producer that has released PENDMAX slots in one call before and
\* holds the slot at cur now.
C23_Witness ==
    \E p, q \in ActiveProducers :
        /\ th[p].pc = "rel_pend"
        /\ th[p].actual + Idx(th[p].index - th[p].old[1]) = PENDMAX
        /\ Holding(q)
        /\ th[q].index = ep.cons.cur
        /\ seq[q] = PENDMAX

(***************************************************************************)
(* Non-blocking and blocking release compared, under SpecNoWait.           *)
(***************************************************************************)
\* The steps of release_slots with FLAG_NONBLK by thread t.
NbReleaseStep(t) == RelCas(t) \/ RelPend(t)

\* Thread t is in release_slots with FLAG_NONBLK.
InNbRelease(t) == t \in active /\ th[t].pc \in {"rel_cas", "rel_pend"}

\* The distance from cur to the end of the range thread t releases.
EndDelta(t) == Idx(th[t].index + th[t].actual - ep[Peer(t)].cur)

\* C24: a thread in a non-blocking release is unable to take a step only
\* while the end of its range lies more than PENDMAX slots beyond cur.
C24_SpinInv ==
    \A t \in active :
        (th[t].pc = "rel_cas" /\ ~ENABLED RelCas(t)) => EndDelta(t) > PENDMAX

\* C24: a blocking release returns in a step that finds cur equal to its own
\* index, and does not start its store before that.
C24_BlockingStep ==
    \A t \in active :
        (HasFlag(FlagsOf(t), FLAG_BLK) /\ Holding(t)) =>
            /\ (th[t].pc = "rel_wait" /\ th'[t].pc # "rel_wait")
                  => ep[Peer(t)].cur = th[t].index
            /\ th'[t].pc = "idle"
                  => ep[Peer(t)].cur = th[t].index

\* C24: if the steps of thread t's non-blocking release are taken whenever
\* they stay possible, whatever the other threads do or do not do, then a
\* release whose range ends within PENDMAX slots of cur returns.
C24_Returns ==
    \A t \in RingThreads :
        WF_vars(NbReleaseStep(t)) =>
            ((InNbRelease(t) /\ EndDelta(t) <= PENDMAX)
                ~> (t \in active /\ th[t].pc = "idle"))

C24_NoWaitForEarlier ==
    /\ []C24_SpinInv
    /\ [][C24_BlockingStep]_vars
    /\ C24_Returns

\* C24, witness: a non-blocking release of the slot after cur has returned
\* while the thread that acquired the slot at cur has not yet written it.
C24_Witness ==
    \E t, u \in active :
        /\ HasFlag(FlagsOf(t), FLAG_NONBLK)
        /\ th[t].pc = "idle"
        /\ th[t].ret = 1
        /\ th[u].pc = "slots"
        /\ Side(u) = Side(t)
        /\ th[u].index = ep[Peer(u)].cur
        /\ ep[Peer(u)].pend = 2

(***************************************************************************)
(* The two-phase interface of the lock-free dequeue, under SpecRing.       *)
(***************************************************************************)
\* Consumer c takes a step of p64_ringbuf_acquire_ on a lock-free ring.
LfAcquireStep(c) ==
    /\ th'[c] # th[c]
    /\ \/ th[c].pc = "idle" /\ th'[c].pc = "lf2_tail"
       \/ th[c].pc \in {"lf2_tail", "lf2_read"}

\* Consumer c takes the step of p64_ringbuf_release_ on a lock-free ring.
LfReleaseStep(c) == th[c].pc = "lf2_rel" /\ th'[c].pc # "lf2_rel"

\* C25: p64_ringbuf_acquire_ of a lock-free consumer advances prod.head.cur
\* over the slots it returns, and p64_ringbuf_release_ leaves the ring
\* buffer as it is.
C25_LfRelease ==
    [][\A c \in ActiveConsumers :
          /\ (LfAcquireStep(c) /\ th'[c].pc = "lf2_rel")
                => ep'.prod.cur = Idx(th'[c].index + th'[c].actual)
          /\ LfReleaseStep(c) => ep' = ep /\ ring' = ring]_vars

\* C25, amended: p64_ringbuf_acquire_ of a lock-free consumer leaves the ring
\* buffer as it is; p64_ringbuf_release_ either finds prod.head.cur equal to
\* the index of the result, advances it by actual and reports success, or
\* leaves the ring buffer as it is and reports failure.
C25_LfReleaseAmended ==
    [][\A c \in ActiveConsumers :
          /\ LfAcquireStep(c) => ep' = ep /\ ring' = ring
          /\ LfReleaseStep(c) =>
                /\ ring' = ring
                /\ \/ /\ th'[c].ret = th[c].actual
                      /\ ep.prod.cur = th[c].index
                      /\ ep' = [ep EXCEPT !.prod.cur = Idx(th[c].index + th[c].actual)]
                      /\ Len(deqd') = Len(deqd) + th[c].actual
                   \/ /\ th'[c].ret = -2
                      /\ ep' = ep
                      /\ deqd' = deqd]_vars

\* C25, witness: p64_ringbuf_release_ of one lock-free consumer has reported
\* failure after the release of another consumer advanced prod.head.cur.
C25_Witness ==
    /\ LockFree
    /\ \E c \in ActiveConsumers : th[c].pc = "idle" /\ th[c].ret = -2
    /\ \E c \in ActiveConsumers : th[c].pc = "idle" /\ th[c].ret > 0
    /\ ep.prod.cur > 0

(***************************************************************************)
(* Progress of the lock-free dequeue, under SpecLf.                        *)
(***************************************************************************)
\* Consumer c is inside the lock-free branch of p64_ringbuf_dequeue.
InLfDequeue(c) == c \in active /\ th[c].pc \in {"lf_tail", "lf_read", "lf_cas"}

\* The steps of the lock-free branch of p64_ringbuf_dequeue by consumer c.
LfDequeueStep(c) == LfLoadTail(c) \/ LfRead(c) \/ LfCas(c)

\* The compare-exchange of p64_ringbuf_dequeue succeeds.
LfCasOk(c) == LfCas(c) /\ ep' # ep

\* A step in which the compare-exchange of consumer c's dequeue fails.
LfCasFails(c) == AtLfCas(c) /\ th'[c] # th[c] /\ ep' = ep

\* prod.head.cur changes only in steps in which a dequeue returns elements.
HeadMovesByDequeue == ep'.prod.cur # ep.prod.cur => Len(deqd') > Len(deqd)

Moved(x) == Idx(x - WrapStart)

\* The tail the acquire of the producers computes with.
ProdTail == IF MultiProducer THEN ep.prod.tail ELSE ep.cons.cur

\* The tail the acquire of the consumers computes with.
ConsTail == IF MultiConsumer THEN ep.cons.tail ELSE ep.prod.cur

\* The number of elements whose enqueue call has returned.
SumSeq == seq["p1"] + (IF "p2" \in active THEN seq["p2"] ELSE 0)

\* The number of slots free for the producers, of elements released to the
\* consumers, computed on integers that do not wrap.
TrueAvail(t) ==
    IF t \in Producers
    THEN ep.prod.capacity + Moved(ep.prod.cur) - Moved(ProdTail)
    ELSE Moved(ep.cons.cur) - Moved(ConsTail)

C27_CountsInv ==
    /\ {ep.prod.cur, ep.prod.tail, ep.cons.cur, ep.cons.tail} \subseteq 0 .. IdxMod - 1
    /\ Moved(ep.prod.cur) <= Moved(ConsTail)
    /\ Moved(ConsTail) <= Moved(ep.cons.cur)
    /\ Moved(ep.cons.cur) <= Moved(ProdTail)
    /\ Moved(ProdTail) <= Moved(ep.prod.cur) + ep.prod.capacity
    /\ Idx(ep.cons.cur - ep.prod.cur) = Moved(ep.cons.cur) - Moved(ep.prod.cur)
    /\ Idx(ep.cons.cur - ep.prod.cur) \in 0 .. ep.prod.capacity
    /\ Idx(ProdTail - ep.prod.cur) \in 0 .. ep.prod.capacity
    /\ Idx(ep.prod.capacity + ep.prod.cur - ProdTail) = TrueAvail("p1")
    /\ Idx(ep.prod.capacity + ep.prod.cur - ProdTail) \in 0 .. ep.prod.capacity
    /\ Idx(ep.cons.cur - ConsTail) = TrueAvail("c1")
    /\ Idx(ep.cons.cur - ConsTail) \in 0 .. ep.prod.capacity
    /\ Occupied \in 0 .. ep.prod.capacity
    /\ Moved(ep.cons.cur) <= SumSeq
    /\ Moved(ep.prod.cur) <= Len(deqd)
    /\ ~HasFlag(pflags, FLAG_NONBLK) => Moved(ep.cons.cur) = SumSeq
    /\ ~HasFlag(cflags, FLAG_NONBLK) => Moved(ep.prod.cur) = Len(deqd)

C27_GrantStep ==
    \A t \in RingThreads :
        (t \in active /\ th'[t] # th[t]) =>
            /\ (th'[t].pc = "slots" /\ th[t].pc # "slots") =>
                  /\ th'[t].actual >= 1
                  /\ th'[t].actual <= MIN(th'[t].n, TrueAvail(t))
                  /\ th'[t].index = (IF t \in Producers THEN ProdTail ELSE ConsTail)
                  /\ th[t].pc \in {"idle", "cas16"} =>
                        th'[t].actual = MIN(th'[t].n, TrueAvail(t))
            /\ (/\ th[t].pc = "idle"
                /\ ~HasFlag(FlagsOf(t), BitOr(FLAG_BLK, FLAG_NONBLK))) =>
                  IF TrueAvail(t) = 0 THEN th'[t] = Return0 ELSE th'[t].pc = "slots"

C27_FifoInv ==
    /\ NoDuplicates(DeqPayloads)
    /\ Elems(DeqPayloads) \subseteq Enqueued
    /\ \A i, j \in 1 .. Len(deqd) :
          (/\ deqd[i][2] \div 10 = deqd[j][2] \div 10
           /\ Moved(deqd[i][1]) < Moved(deqd[j][1])) => deqd[i][2] < deqd[j][2]
    /\ ~MultiConsumer =>
          \A i \in 1 .. Len(deqd) : deqd[i][1] = Idx(WrapStart + i - 1)
    /\ (~MultiProducer /\ ~MultiConsumer) =>
          \A i \in 1 .. Len(deqd) : deqd[i][2] = Payload("p1", i)
    /\ Quiescent =>
          /\ NoDuplicates(DeqPayloads \o InRing)
          /\ Elems(DeqPayloads \o InRing) = Enqueued

C28_LargeNelems ==
    \A p \in ActiveProducers :
        (th[p].pc = "idle" /\ th[p].ret = 0) => Occupied + Len(deqd) > 0

=============================================================================
